---- MODULE Spec2Model ----
(***************************************************************************)
(* Model of the input layer of the escape-room game: InputManager          *)
(* (src/src/input_manager.py) with the EMA filter of                       *)
(* src/src/utils/filters.py and the constants of src/src/utils/constants.py*)
(*                                                                         *)
(* Number representation.  The program computes with floats.  The model    *)
(* is fixed point:                                                         *)
(*   - accelerations, thresholds and the EMA factor are integers counting  *)
(*     hundredths (0.30 is 30, 1.2 is 120); the result of the filter is    *)
(*     rounded to the nearest representable value, as a float result is,   *)
(*     the representable values of the model being the multiples of 0.06;  *)
(*   - time.monotonic() is an integer counting tenths of a second, and     *)
(*     every loop iteration that reaches its sleep takes a whole number    *)
(*     (at least one) of tenths.                                           *)
(* An optional value (Python None or a value) is a sequence of length      *)
(* at most one: << >> is None, <<v>> is v.                                 *)
(***************************************************************************)
EXTENDS Integers, Sequences, FiniteSets

VARIABLES
    now,              \* time.monotonic(), in tenths of a second
    filtered,         \* [x, y, z]: self.x_filtered, self.y_filtered, self.z_filtered
    baseline,         \* [x, y, z]: self.baseline_x, self.baseline_y, self.baseline_z
    left_button,      \* Debouncer: [value, fell]; value TRUE is released (pull-up)
    right_button,
    encoder_button,
    pc,               \* the routine being executed, "done" once it has returned
    result,           \* the value returned (optional: << >> until the routine returns)
    start_time,       \* local start_time of the running routine
    timeout_s,        \* argument timeout_s (optional)
    iter,             \* history: the number of loop iterations this call has executed
    callee,           \* the routine the caller calls
    calls,            \* history: the number of calls that have returned before this one
    \* detect_movement
    required,         \* local required (optional set of axes)
    confirm_count,    \* local confirm_count
    detected,         \* local detected
    quiet,            \* history: every raw sample so far lay within the threshold band
    last_below,       \* history, per axis: the number of the last iteration of this
                      \* call whose diff was not above MOTION_THRESHOLD (0: none yet)
    strong,           \* history: the axes that, on some iteration of this call, ended
                      \* a run of CONFIRM_THRESHOLD iterations above MOTION_THRESHOLD
                      \* with a diff above 1.2 * MOTION_THRESHOLD
    \* detect_all_six_directions
    directions_detected,  \* self.directions_detected
    axes_set,         \* local axes_set
    crossed,          \* history: the signed X and Y directions in which the filtered
                      \* value was beyond TILT_THRESHOLD on some iteration of this call
    crossed_z,        \* history: the signed Z directions in which the filtered value
                      \* was beyond TILT_THRESHOLD from the baseline on some iteration
                      \* of this call
    \* both_buttons_held
    duration_s,       \* argument duration_s
    all_held,         \* history: every poll of this call found both buttons pressed
    \* detect_double_click_button
    last_left_click,  \* local last_left_click (optional time)
    last_right_click, \* local last_right_click (optional time)
    prev_edge,        \* history, per button: the time of its latest press edge in
                      \* this call (optional)
    edges,            \* history, per button: the number of its press edges in this call
    close_pair,       \* history: some button has had two press edges of its own no
                      \* more than DOUBLE_CLICK_WINDOW apart in this call
    \* navigate_choice
    n_choices,        \* len(choices)
    current_index,    \* local current_index
    last_countdown,   \* local last_countdown, in seconds
    shown,            \* the last call of display_callback: [index, countdown]
    net,              \* history: right press edges minus left press edges of this call
    callbacks,        \* history: the number of calls of display_callback made by the
                      \* latest step of this call
    \* update() called from a polling loop
    prev_level,       \* history, per button: the level the latest update() sampled
                      \* (at first: the level at construction)
    since_press,      \* history, per button: the number of update() calls since the
                      \* level last went from released to pressed (0: it has not, or
                      \* the button has been released again)
    \* the statements of the blocking loops
    stmt,             \* the position, in the loop body, of the next statement
    updated,          \* history: the number of update() calls of the current iteration
    early_read,       \* history: some iteration read a device value before update()
    \* AccelerometerFilter.ema_filter fed with a constant raw value
    ema_alpha,        \* argument alpha, in hundredths
    ema_raw,          \* argument raw, the same on every tick
    ema_filtered,     \* argument filtered: the result of the tick before
    ema_first,        \* history: the filtered value before the first tick
    \* Game.run
    game_pc,          \* the position in Game.run: "select", "chapters", "completed", "over"
    difficulty,       \* self.difficulty (optional)
    next_chapter,     \* local next_chapter (optional name)
    chapter_name,     \* the argument of the latest run_chapter call (optional name)
    passed,           \* history: the chapters that have returned a success result
                      \* (no restart command) in this playthrough
    game_start_time,  \* self.start_time of Game (optional time)
    completion_time,  \* local completion_time, in seconds (optional)
    first_entry,      \* history: the time at which run_chapter was first called
                      \* for chapter_01 in this playthrough (optional)
    timer_starts,     \* history: the number of assignments of a time to
                      \* self.start_time in this playthrough
    \* the statements of update()
    ustmt,            \* the position, in update(), of its next statement (0: update()
                      \* is not being executed)
    raw_sample,       \* locals x_raw, y_raw, z_raw of update() (optional sample)
    refreshed_at,     \* history, per device value: the number of the update() call
                      \* that refreshed it last (0: none has)
    observed,         \* history: the number of update() calls made when the loop
                      \* last read the device values (0: it has not read them)
    torn,             \* history: the loop has read the device values when some of
                      \* them had been refreshed by the latest update() call and
                      \* others had not
    \* AccelerometerReader (src/src/direction_detection_v2.py)
    reader_filt,      \* [x, y, z]: self.x_filt, self.y_filt, self.z_filt
    direction,        \* self._direction
    count,            \* self._count
    confirm_samples,  \* self.confirm_samples
    returned,         \* the value the latest update() returned (optional direction)
    classes,          \* history: the new_direction of every update() so far
    \* InputManager.get_direction
    accel_reader,     \* self._accel_reader is not None
    got,              \* the value the latest get_direction() returned (optional
                      \* direction)
    fault,            \* history: the sensor read of the latest get_direction()
                      \* raised
    \* HighScoreManager (src/src/highscore_manager.py)
    scores,           \* self.scores: a list of <<initials, time_seconds, n>>, where
                      \* n is history: the number of the add_score call that
                      \* appended the entry
    added,            \* history: the time_seconds of every add_score call so far
    \* Chapter10.run (src/src/chapters/chapter_10.py), the final loop
    ch10_at,          \* the position in the loop: "question" (line 37), "window"
                      \* (line 48), "flash" (line 70), "ending" (line 82)
    selected,         \* local selected
    choice_made,      \* local choice_made
    round_press,      \* history: an update() of the current window has sampled the
                      \* encoder button pressed after a sample that found it released
    rounds,           \* history: the number of rounds started
    \* blocking routines called one after the other
    edge_no,          \* history, per button: the number of press edges sampled so
                      \* far (a sample that finds the button pressed after a sample
                      \* that found it released)
    sampled,          \* history, per button: for every press edge, the number of
                      \* the call whose update() sampled it
    acts,             \* history: <<button, press edge, call>> for every time a
                      \* routine has found the button's query true and acted on it
    \* detect_double_tap
    last_tap_time,    \* self.last_tap_time (optional time)
    prev_tap,         \* history: the time of the latest tap event of this call
                      \* (optional)
    tap_pair          \* history: two consecutive tap events of this call were no
                      \* more than DOUBLE_TAP_WINDOW apart

devVars == <<filtered, baseline, left_button, right_button, encoder_button>>
callVars == <<pc, result, start_time, timeout_s, iter>>
moveVars == <<required, confirm_count, detected, quiet, last_below, strong>>
dirVars == <<directions_detected, axes_set, crossed, crossed_z>>
holdVars == <<duration_s, all_held>>
clickVars == <<last_left_click, last_right_click, prev_edge, edges, close_pair>>
navVars == <<n_choices, current_index, last_countdown, shown, net, callbacks>>
callerVars == <<callee, calls>>
pollVars == <<prev_level, since_press>>
loopVars == <<stmt, updated, early_read>>
emaVars == <<ema_alpha, ema_raw, ema_filtered, ema_first>>
gameVars == <<game_pc, difficulty, next_chapter, chapter_name, passed, game_start_time,
              completion_time, first_entry, timer_starts>>
tickVars == <<ustmt, raw_sample, refreshed_at, observed, torn>>
readerVars == <<reader_filt, direction, count, confirm_samples, returned, classes>>
directionVars == <<accel_reader, got, fault>>
scoreVars == <<scores, added>>
ch10Vars == <<ch10_at, selected, choice_made, round_press, rounds>>
handoverVars == <<edge_no, sampled, acts>>
tapVars == <<last_tap_time, prev_tap, tap_pair>>
lateVars == <<directionVars, scoreVars, ch10Vars, handoverVars, tapVars>>
extraVars == <<emaVars, gameVars, tickVars, readerVars, lateVars>>
restVars == <<callerVars, pollVars, loopVars, extraVars>>

vars == <<now, devVars, callVars, moveVars, dirVars, holdVars, clickVars, navVars, restVars>>

----------------------------------------------------------------------------
(* Program constants *)

ACCEL_EMA_ALPHA == 30
MOTION_THRESHOLD == 30
TILT_THRESHOLD == 120
CONFIRM_THRESHOLD == 5
DOUBLE_CLICK_WINDOW == 5

(* Bounds of the model: the clock value after which no further iteration   *)
(* of a loop that can run without a timeout is modelled (a call with a     *)
(* timeout returns before it)                                              *)
MaxMoveTime == 7
MaxDirTime == 5
MaxClickTime == 9
MaxTiltTime == 5
(* the number of update() calls of a polling loop, of iterations of a loop   *)
(* followed statement by statement, and of calls repeated after a return     *)
MaxUpdates == 4
MaxLoopIters == 2
MaxCalls == 1

Axes == {"x", "y", "z"}

----------------------------------------------------------------------------
(* Helpers *)

Abs(v) == IF v < 0 THEN -v ELSE v

\* n / d rounded to the nearest integer
RoundDiv(n, d) == (2 * n + d) \div (2 * d)

\* n / d rounded to the nearest representable value
Quantize(n, d) == 6 * RoundDiv(n, 6 * d)

\* Python truthiness of an optional number: None and 0 are falsy
Truthy_not_none(opt) == opt # << >>
Truthy(opt) == opt # << >> /\ opt[1] # 0

PRESSED == FALSE       \* debounced level of a pressed button (pull-up: active low)
RELEASED == TRUE

Sample(vx, vy, vz) == [x |-> vx, y |-> vy, z |-> vz]
Shift(off, base) == [a \in Axes |-> base[a] + off[a]]

\* detected.add(...), self.directions_detected.add(...): the set after the
\* members new have been added to it
AddAll_latest(seen, new) == new
AddAll(seen, new) == seen \cup new

\* AccelerometerFilter.ema_filter
ema_filter_swapped(raw, filt, alpha) == Quantize((100 - alpha) * raw + alpha * filt, 100)
ema_filter(raw, filt, alpha) == Quantize(alpha * raw + (100 - alpha) * filt, 100)

\* Debouncer.update() with the debounced level becoming level
Debounce_level(btn, level) == [value |-> level, fell |-> ~level]
Debounce(btn, level) == [value |-> level, fell |-> btn.value /\ ~level]

\* InputManager.update(): the buttons take the debounced levels l, r, e and the
\* accelerometer returns the sample raw
update_recalibrating(l, r, e, raw) ==
    /\ left_button' = Debounce(left_button, l)
    /\ right_button' = Debounce(right_button, r)
    /\ encoder_button' = Debounce(encoder_button, e)
    /\ filtered' = [a \in Axes |-> ema_filter(raw[a], filtered[a], ACCEL_EMA_ALPHA)]
    /\ baseline' = [a \in Axes |-> raw[a]]
update(l, r, e, raw) ==
    /\ left_button' = Debounce(left_button, l)
    /\ right_button' = Debounce(right_button, r)
    /\ encoder_button' = Debounce(encoder_button, e)
    /\ filtered' = [a \in Axes |-> ema_filter(raw[a], filtered[a], ACCEL_EMA_ALPHA)]
    /\ baseline' = baseline

\* InputManager.update() when the read of accelerometer.acceleration (line 87)
\* raises: the buttons have been updated (lines 82-84), the exception leaves
\* update() before the filter is assigned
update_raising(l, r, e) ==
    /\ left_button' = Debounce(left_button, l)
    /\ right_button' = Debounce(right_button, r)
    /\ encoder_button' = Debounce(encoder_button, e)
    /\ filtered' = filtered
    /\ baseline' = baseline

\* the timeout test shared by the detectors:
\*   if timeout_s and (time.monotonic() - start_time) > timeout_s
TimedOut_early(t, elapsed) == Truthy(t) /\ elapsed > t[1] - 2
TimedOut_never(t, elapsed) == FALSE
TimedOut_default(t, elapsed) == IF t = << >> THEN elapsed > 2 ELSE elapsed > t[1]
TimedOut(t, elapsed) == Truthy(t) /\ elapsed > t[1]

Released == [value |-> RELEASED, fell |-> FALSE]

----------------------------------------------------------------------------
(* detect_movement *)

\* the samples the accelerometer delivers in the movement specification, as
\* offsets from the baseline
MoveOffsets ==
    { Sample(0, 0, 0), Sample(30, 30, 30), Sample(-30, -30, -30),
      Sample(60, 0, 0), Sample(0, 60, 0), Sample(0, 0, 60), Sample(60, 60, 0),
      Sample(36, 0, 0), Sample(-60, 0, 0) }
MoveFirstOffsets == { Sample(0, 0, 0), Sample(30, 30, 30), Sample(60, 0, 0) }
MoveBaselines == { Sample(0, 0, 0), Sample(12, -12, 60) }
MoveRequired == { << >>, <<{"x", "y"}>> }
MoveTimeouts == { << >>, <<0>>, <<4>> }
MoveSteps == {1}

InBand(raw, base) == \A a \in Axes : Abs(raw[a] - base[a]) <= MOTION_THRESHOLD

\* x_diff, y_diff, z_diff
AxisDiff(filt, base) == [a \in Axes |-> Abs(filt[a] - base[a])]

\* the counter of one required axis after an iteration with deviation d
NextCount_sticky(c, d) == IF d > MOTION_THRESHOLD THEN c + 1 ELSE c
NextCount(c, d) == IF d > MOTION_THRESHOLD THEN c + 1 ELSE 0

\* MOTION_THRESHOLD * 1.2
StrongThreshold == RoundDiv(MOTION_THRESHOLD * 120, 100)

\* the test that adds an axis to detected, c being the counter after its update
Confirms_weak(c, d) ==
    /\ d > MOTION_THRESHOLD
    /\ c >= CONFIRM_THRESHOLD
Confirms(c, d) ==
    /\ d > MOTION_THRESHOLD
    /\ c >= CONFIRM_THRESHOLD
    /\ d > StrongThreshold

\* the success test of one iteration
MovementSucceeds_any(req, det, diff) ==
    IF req # << >>
    THEN req[1] \cap det # {}
    ELSE \E a \in Axes : diff[a] > MOTION_THRESHOLD
MovementSucceeds_ge(req, det, diff) ==
    IF req # << >>
    THEN req[1] \subseteq det
    ELSE \E a \in Axes : diff[a] >= MOTION_THRESHOLD
MovementSucceeds_strong(req, det, diff) ==
    IF req # << >>
    THEN req[1] \subseteq det
    ELSE \E a \in Axes : diff[a] > StrongThreshold
MovementSucceeds(req, det, diff) ==
    IF req # << >>
    THEN req[1] \subseteq det
    ELSE \E a \in Axes : diff[a] > MOTION_THRESHOLD

\* the parts of the state a specification does not use
CallEntry ==
    /\ now = 0
    /\ pc = "call"
    /\ result = << >>
    /\ start_time = 0
    /\ iter = 0
    /\ calls = 0
ButtonsReleased ==
    /\ left_button = Released
    /\ right_button = Released
    /\ encoder_button = Released
NoMove ==
    /\ required = << >>
    /\ confirm_count = [a \in Axes |-> 0]
    /\ detected = {}
    /\ quiet = TRUE
    /\ last_below = [a \in Axes |-> 0]
    /\ strong = {}
NoDir ==
    /\ directions_detected = {}
    /\ axes_set = {}
    /\ crossed = {}
    /\ crossed_z = {}
NoHold ==
    /\ duration_s = 0
    /\ all_held = TRUE
NoClick ==
    /\ last_left_click = << >>
    /\ last_right_click = << >>
    /\ prev_edge = [b \in {"left", "right"} |-> << >>]
    /\ edges = [b \in {"left", "right"} |-> 0]
    /\ close_pair = FALSE
NoNav ==
    /\ n_choices = 1
    /\ current_index = 0
    /\ last_countdown = 0
    /\ shown = [index |-> 0, countdown |-> 0]
    /\ net = 0
    /\ callbacks = 0
NoPoll ==
    /\ prev_level = [b \in {"left", "right", "encoder"} |-> RELEASED]
    /\ since_press = [b \in {"left", "right", "encoder"} |-> 0]
NoLoop ==
    /\ stmt = 0
    /\ updated = 0
    /\ early_read = FALSE
NoEma ==
    /\ ema_alpha = ACCEL_EMA_ALPHA
    /\ ema_raw = 0
    /\ ema_filtered = 0
    /\ ema_first = 0
NoGame ==
    /\ game_pc = "select"
    /\ difficulty = << >>
    /\ next_chapter = << >>
    /\ chapter_name = << >>
    /\ passed = {}
    /\ game_start_time = << >>
    /\ completion_time = << >>
    /\ first_entry = << >>
    /\ timer_starts = 0
\* the device values update() refreshes
Devices ==
    {"encoder", "encoder_button", "left_button", "right_button",
     "x_filtered", "y_filtered", "z_filtered"}
NoTick ==
    /\ ustmt = 0
    /\ raw_sample = << >>
    /\ refreshed_at = [d \in Devices |-> 0]
    /\ observed = 0
    /\ torn = FALSE
NoReader ==
    /\ reader_filt = [a \in Axes |-> 0]
    /\ direction = "NONE"
    /\ count = 0
    /\ confirm_samples = 0
    /\ returned = << >>
    /\ classes = << >>
NoDirection ==
    /\ accel_reader = FALSE
    /\ got = << >>
    /\ fault = FALSE
NoScores ==
    /\ scores = << >>
    /\ added = << >>
NoCh10 ==
    /\ ch10_at = "question"
    /\ selected = 0
    /\ choice_made = FALSE
    /\ round_press = FALSE
    /\ rounds = 0
NoHandover ==
    /\ edge_no = [b \in {"left", "right", "encoder"} |-> 0]
    /\ sampled = [b \in {"left", "right", "encoder"} |-> << >>]
    /\ acts = {}
NoTap ==
    /\ last_tap_time = << >>
    /\ prev_tap = << >>
    /\ tap_pair = FALSE
NoLate ==
    /\ NoDirection
    /\ NoScores
    /\ NoCh10
    /\ NoHandover
    /\ NoTap
NoExtra ==
    /\ NoEma
    /\ NoGame
    /\ NoTick
    /\ NoReader
    /\ NoLate

InitMove ==
    /\ CallEntry
    /\ callee = "detect_movement"
    /\ NoPoll
    /\ NoLoop
    /\ NoExtra
    /\ ButtonsReleased
    /\ baseline \in MoveBaselines
    /\ \E off \in MoveFirstOffsets : filtered = Shift(off, baseline)
    /\ timeout_s \in MoveTimeouts
    /\ required \in MoveRequired
    /\ confirm_count = [a \in Axes |-> 0]
    /\ detected = {}
    /\ quiet = InBand(filtered, baseline)
    /\ last_below = [a \in Axes |-> 0]
    /\ strong = {}
    /\ NoDir
    /\ NoHold
    /\ NoClick
    /\ NoNav

\* lines 157-169: the call's locals
detect_movement_begin_keep ==
    /\ pc = "call"
    /\ callee = "detect_movement"
    /\ pc' = "detect_movement"
    /\ start_time' = now
    /\ iter' = 0
    /\ last_below' = [a \in Axes |-> 0]
    /\ strong' = {}
    /\ UNCHANGED <<now, devVars, result, timeout_s, restVars, required, quiet, confirm_count,
                   detected, dirVars, holdVars, clickVars, navVars>>
detect_movement_begin_reset ==
    /\ pc = "call"
    /\ callee = "detect_movement"
    /\ pc' = "detect_movement"
    /\ start_time' = now
    /\ confirm_count' = [a \in Axes |-> 0]
    /\ detected' = {}
    /\ iter' = 0
    /\ last_below' = [a \in Axes |-> 0]
    /\ strong' = {}
    /\ filtered' = baseline
    /\ UNCHANGED <<now, baseline, left_button, right_button, encoder_button, result,
                   timeout_s, restVars, required, quiet, dirVars, holdVars, clickVars,
                   navVars>>
detect_movement_begin ==
    /\ pc = "call"
    /\ callee = "detect_movement"
    /\ pc' = "detect_movement"
    /\ start_time' = now
    /\ confirm_count' = [a \in Axes |-> 0]
    /\ detected' = {}
    /\ iter' = 0
    /\ last_below' = [a \in Axes |-> 0]
    /\ strong' = {}
    /\ UNCHANGED <<now, devVars, result, timeout_s, restVars, required, quiet, dirVars, holdVars, clickVars, navVars>>

\* the history of one iteration that left the deviations diff
Observe(diff) ==
    /\ iter' = iter + 1
    /\ last_below' = [a \in Axes |->
                        IF diff[a] > MOTION_THRESHOLD THEN last_below[a] ELSE iter + 1]
    /\ strong' = strong \cup
                   {a \in Axes : /\ iter' - last_below'[a] >= CONFIRM_THRESHOLD
                                 /\ diff[a] > StrongThreshold}

\* lines 171-238: one iteration of the loop
detect_movement_iter ==
    /\ pc = "detect_movement"
    /\ now < MaxMoveTime
    /\ \E off \in MoveOffsets, dt \in MoveSteps :
        /\ update(RELEASED, RELEASED, RELEASED, Shift(off, baseline))
        /\ quiet' = (quiet /\ InBand(Shift(off, baseline), baseline))
        /\ LET diff == AxisDiff(filtered', baseline)
               inreq(a) == required # << >> /\ a \in required[1]
               cc == [a \in Axes |->
                        IF inreq(a) THEN NextCount(confirm_count[a], diff[a])
                        ELSE confirm_count[a]]
               det == AddAll(detected, {a \in Axes : inreq(a) /\ Confirms(cc[a], diff[a])})
           IN  /\ confirm_count' = cc
               /\ detected' = det
               /\ Observe(diff)
               /\ IF MovementSucceeds(required, det, diff)
                  THEN /\ pc' = "done" /\ result' = <<TRUE>> /\ now' = now
                  ELSE IF TimedOut(timeout_s, now - start_time)
                  THEN /\ pc' = "done" /\ result' = <<FALSE>> /\ now' = now
                  ELSE /\ pc' = pc /\ result' = result /\ now' = now + dt
    /\ UNCHANGED <<start_time, timeout_s, restVars, required, dirVars, holdVars, clickVars, navVars>>

NextMove == detect_movement_begin \/ detect_movement_iter

SpecMove == InitMove /\ [][NextMove]_vars

\* the deviation of axis a in the current state
Diff(a) == Abs(filtered[a] - baseline[a])

\* a step that is one iteration of the detect_movement loop
MoveIteration == pc = "detect_movement" /\ iter' = iter + 1

\* C1: while every raw sample, the one that initialised the filter included,
\* stays within MOTION_THRESHOLD of the baseline on every axis, detect_movement
\* does not return True, with or without required axes; when it returns, it
\* returns False, and it does so only with a timeout that has elapsed.
C1_QuietNeverDetects ==
    quiet =>
        /\ result # <<TRUE>>
        /\ pc = "done" =>
              /\ result = <<FALSE>>
              /\ Truthy(timeout_s)
              /\ now - start_time > timeout_s[1]
        /\ (pc = "detect_movement" /\ Truthy(timeout_s)) =>
              \A dt \in MoveSteps : now - start_time <= timeout_s[1] + dt

C1_Witness ==
    /\ quiet
    /\ pc = "done"
    /\ required # << >>
    /\ \E a \in Axes : Diff(a) = MOTION_THRESHOLD

\* C2: with required axes, an iteration adds an axis to detected exactly when
\* the axis is required, was not detected yet, its diff has been above
\* MOTION_THRESHOLD on each of the last five iterations of this call (this one
\* included) and its diff is above 1.2 * MOTION_THRESHOLD on this iteration.
C2_ConfirmIffFiveAndStrong ==
    [][ MoveIteration =>
          \A a \in Axes :
              (a \in detected' /\ a \notin detected)
              <=> /\ required # << >>
                  /\ a \in required[1]
                  /\ a \notin detected
                  /\ iter' - last_below'[a] >= CONFIRM_THRESHOLD
                  /\ Diff(a)' > StrongThreshold ]_vars

\* x has been confirmed, and y has been above the threshold for five
\* iterations without being confirmed, its diff not being above 1.2 times it
C2_Witness ==
    /\ pc = "detect_movement"
    /\ "x" \in detected
    /\ "y" \notin detected
    /\ iter - last_below["y"] >= CONFIRM_THRESHOLD

\* C3: in an iteration, the counter of every required axis becomes 0 when the
\* axis's diff is not above MOTION_THRESHOLD and grows by exactly 1 otherwise,
\* whatever the other axes do; the counter of an axis that is not required
\* does not change.
C3_CounterResetOrIncrement ==
    [][ MoveIteration =>
          \A a \in Axes :
              IF required # << >> /\ a \in required[1]
              THEN IF Diff(a)' > MOTION_THRESHOLD
                   THEN confirm_count'[a] = confirm_count[a] + 1
                   ELSE confirm_count'[a] = 0
              ELSE confirm_count'[a] = confirm_count[a] ]_vars

\* the counter of x was reset after a run, while the counter of y keeps counting
C3_Witness ==
    /\ pc = "detect_movement"
    /\ iter >= 4
    /\ confirm_count["x"] = 0
    /\ last_below["x"] = iter
    /\ confirm_count["y"] >= 2

\* C4: with required axes, detect_movement has returned True exactly when
\* every required axis has, on some iteration of this call, ended a run of
\* five iterations above MOTION_THRESHOLD with a diff above 1.2 times it; it
\* returns on the iteration that completes this, the axes are confirmed on
\* their own iterations, and an axis that is not required is never detected.
C4_TrueIffAllRequiredConfirmed ==
    (required # << >> /\ pc \in {"detect_movement", "done"}) =>
        /\ (pc = "done" /\ result = <<TRUE>>) <=> required[1] \subseteq strong
        /\ detected \subseteq required[1]
        /\ detected = strong \cap required[1]

\* success on an iteration on which x, confirmed earlier, is no longer above
\* the threshold
C4_Witness ==
    /\ required # << >>
    /\ result = <<TRUE>>
    /\ Diff("x") <= MOTION_THRESHOLD
    /\ Diff("y") > MOTION_THRESHOLD

\* C23: without required axes, detect_movement returns True on the first
\* iteration on which the diff of some axis is above MOTION_THRESHOLD: while it
\* runs, and when it times out, no iteration of the call has had such a diff;
\* when it has returned True, the latest iteration, and no earlier one, had;
\* neither a run of iterations nor a diff above 1.2 * MOTION_THRESHOLD is needed.
C23_AnyAxisReturnsAtOnce ==
    (required = << >> /\ (pc = "detect_movement" \/ pc = "done")) =>
        /\ result = <<TRUE>> <=> \E a \in Axes : last_below[a] # iter
        /\ \A a \in Axes : last_below[a] >= iter - 1
        /\ result # << >> <=> pc = "done"

\* True on the second iteration, the first having been below the threshold,
\* with a diff that is not above 1.2 * MOTION_THRESHOLD on any axis
C23_Witness ==
    /\ required = << >>
    /\ callee = "detect_movement"
    /\ result = <<TRUE>>
    /\ iter = 2
    /\ Diff("x") > MOTION_THRESHOLD
    /\ \A a \in Axes : Diff(a) <= StrongThreshold

----------------------------------------------------------------------------
(* detect_all_six_directions *)

\* the samples the accelerometer delivers in the directions specification, as
\* offsets from the baseline
DirOffsets ==
    { Sample(0, 0, 0), Sample(600, 600, 0), Sample(-600, -600, 0), Sample(-600, 0, 0),
      Sample(0, 0, 600), Sample(0, 0, -600) }
DirBaselines == { Sample(0, 0, 0), Sample(60, -60, 960) }
DirAxes == { {"x", "y"}, {"x", "y", "z"} }
DirTimeouts == { << >>, <<0>>, <<3>> }
DirSteps == {1}

\* required_count
RequiredCount_single(axes) == Cardinality(axes)
RequiredCount(axes) == Cardinality(axes) * 2

\* the direction tokens one iteration adds to directions_detected
DirTokens_relative(filt, base, axes) ==
    {t \in {"+X", "-X", "+Y", "-Y", "+Z", "-Z"} :
        \/ t = "+X" /\ "x" \in axes /\ filt["x"] - base["x"] > TILT_THRESHOLD
        \/ t = "-X" /\ "x" \in axes /\ filt["x"] - base["x"] < -TILT_THRESHOLD
        \/ t = "+Y" /\ "y" \in axes /\ filt["y"] - base["y"] > TILT_THRESHOLD
        \/ t = "-Y" /\ "y" \in axes /\ filt["y"] - base["y"] < -TILT_THRESHOLD
        \/ t = "+Z" /\ "z" \in axes /\ filt["z"] - base["z"] > TILT_THRESHOLD
        \/ t = "-Z" /\ "z" \in axes /\ filt["z"] - base["z"] < -TILT_THRESHOLD}
DirTokens(filt, base, axes) ==
    {t \in {"+X", "-X", "+Y", "-Y", "+Z", "-Z"} :
        \/ t = "+X" /\ "x" \in axes /\ filt["x"] > TILT_THRESHOLD
        \/ t = "-X" /\ "x" \in axes /\ filt["x"] < -TILT_THRESHOLD
        \/ t = "+Y" /\ "y" \in axes /\ filt["y"] > TILT_THRESHOLD
        \/ t = "-Y" /\ "y" \in axes /\ filt["y"] < -TILT_THRESHOLD
        \/ t = "+Z" /\ "z" \in axes /\ filt["z"] - base["z"] > TILT_THRESHOLD
        \/ t = "-Z" /\ "z" \in axes /\ filt["z"] - base["z"] < -TILT_THRESHOLD}

InitDir ==
    /\ CallEntry
    /\ callee = "detect_all_six_directions"
    /\ NoPoll
    /\ NoLoop
    /\ NoExtra
    /\ ButtonsReleased
    /\ baseline \in DirBaselines
    /\ filtered = baseline
    /\ timeout_s \in DirTimeouts
    /\ directions_detected \in {{}, {"+X", "-Z"}}
    /\ axes_set \in DirAxes
    /\ crossed = {}
    /\ crossed_z = {}
    /\ NoMove
    /\ NoHold
    /\ NoClick
    /\ NoNav

\* lines 383-388
detect_all_six_directions_begin ==
    /\ pc = "call"
    /\ callee = "detect_all_six_directions"
    /\ pc' = "detect_all_six_directions"
    /\ directions_detected' = {}
    /\ start_time' = now
    /\ iter' = 0
    /\ crossed' = {}
    /\ crossed_z' = {}
    /\ UNCHANGED <<now, devVars, result, timeout_s, restVars, axes_set, moveVars, holdVars, clickVars, navVars>>

\* lines 390-427: one iteration of the loop
detect_all_six_directions_iter ==
    /\ pc = "detect_all_six_directions"
    /\ now < MaxDirTime
    /\ \E off \in DirOffsets, dt \in DirSteps :
        /\ update(RELEASED, RELEASED, RELEASED, Shift(off, baseline))
        /\ iter' = iter + 1
        /\ directions_detected' =
               AddAll(directions_detected, DirTokens(filtered', baseline, axes_set))
        /\ crossed' = crossed \cup
               ( {t \in {"+X"} : filtered'["x"] > TILT_THRESHOLD}
                 \cup {t \in {"-X"} : filtered'["x"] < -TILT_THRESHOLD}
                 \cup {t \in {"+Y"} : filtered'["y"] > TILT_THRESHOLD}
                 \cup {t \in {"-Y"} : filtered'["y"] < -TILT_THRESHOLD} )
        /\ crossed_z' = crossed_z \cup
               ( {t \in {"+Z"} : filtered'["z"] - baseline["z"] > TILT_THRESHOLD}
                 \cup {t \in {"-Z"} : filtered'["z"] - baseline["z"] < -TILT_THRESHOLD} )
        /\ IF Cardinality(directions_detected') >= RequiredCount(axes_set)
           THEN /\ pc' = "done" /\ result' = <<TRUE>> /\ now' = now
           ELSE IF TimedOut(timeout_s, now - start_time)
           THEN /\ pc' = "done" /\ result' = <<FALSE>> /\ now' = now
           ELSE /\ pc' = pc /\ result' = result /\ now' = now + dt
    /\ UNCHANGED <<start_time, timeout_s, restVars, axes_set, moveVars, holdVars, clickVars, navVars>>

NextDir == detect_all_six_directions_begin \/ detect_all_six_directions_iter

SpecDir == InitDir /\ [][NextDir]_vars

\* C5: with axes x and y, detect_all_six_directions returns True only when
\* each of +X, -X, +Y and -Y has been beyond the tilt threshold on some
\* iteration of this call; a call that ends with three or fewer of them
\* returns False, and does so with its timeout elapsed.
C5_FourDirectionsOrTimeout ==
    (axes_set = {"x", "y"} /\ pc \in {"detect_all_six_directions", "done"}) =>
        /\ result = <<TRUE>> => crossed = {"+X", "-X", "+Y", "-Y"}
        /\ (pc = "done" /\ Cardinality(crossed) <= 3) =>
              /\ result = <<FALSE>>
              /\ Truthy(timeout_s)
              /\ now - start_time > timeout_s[1]

\* three of the four directions were seen and the call timed out
C5_Witness ==
    /\ axes_set = {"x", "y"}
    /\ pc = "done"
    /\ result = <<FALSE>>
    /\ Cardinality(crossed) = 3

\* the token of a direction of one of the axes
TokensOf(axes) ==
    {t \in {"+X", "-X", "+Y", "-Y", "+Z", "-Z"} :
        \/ t \in {"+X", "-X"} /\ "x" \in axes
        \/ t \in {"+Y", "-Y"} /\ "y" \in axes
        \/ t \in {"+Z", "-Z"} /\ "z" \in axes}

\* C25: in detect_all_six_directions every requested axis is tested on every
\* iteration for both polarities against TILT_THRESHOLD, X and Y on the
\* filtered value itself and Z on z_filtered - baseline_z: the set holds
\* exactly the tokens of requested axes whose test has been met on some
\* iteration of this call, and the call has returned True exactly when the
\* set has at least 2 * (number of requested axes) tokens.
C25_TokensOfRequestedAxes ==
    (pc = "detect_all_six_directions" \/ (pc = "done" /\ callee = "detect_all_six_directions")) =>
        /\ directions_detected = (crossed \cup crossed_z) \cap TokensOf(axes_set)
        /\ result = <<TRUE>> <=>
              Cardinality(directions_detected) >= 2 * Cardinality(axes_set)

\* with a baseline that is not level, three of the four requested directions
\* are in the set; Z has been beyond the threshold as well and, not being
\* requested, has left no token
C25_Witness ==
    /\ pc = "detect_all_six_directions"
    /\ axes_set = {"x", "y"}
    /\ crossed_z # {}
    /\ directions_detected = {"+X", "-X", "+Y"}
    /\ baseline["x"] # 0

----------------------------------------------------------------------------
(* both_buttons_held *)

HoldDurations == {0, 2, 4}
HoldSteps == {1, 2}
Levels == {PRESSED, RELEASED}
ButtonStates == {Released, [value |-> PRESSED, fell |-> FALSE], [value |-> PRESSED, fell |-> TRUE]}

\* if self.left_button.value or self.right_button.value
EitherReleased_both(l, r) == l.value /\ r.value
EitherReleased(l, r) == l.value \/ r.value

InitHold ==
    /\ CallEntry
    /\ callee = "both_buttons_held"
    /\ NoPoll
    /\ NoLoop
    /\ NoExtra
    /\ baseline = Sample(0, 0, 0)
    /\ filtered = baseline
    /\ left_button \in {Released, [value |-> PRESSED, fell |-> FALSE]}
    /\ right_button \in {Released, [value |-> PRESSED, fell |-> FALSE]}
    /\ encoder_button = Released
    /\ timeout_s = << >>
    /\ duration_s \in HoldDurations
    /\ all_held = TRUE
    /\ NoMove
    /\ NoDir
    /\ NoClick
    /\ NoNav

\* line 129
both_buttons_held_begin ==
    /\ pc = "call"
    /\ callee = "both_buttons_held"
    /\ pc' = "both_buttons_held"
    /\ start_time' = now
    /\ iter' = 0
    /\ all_held' = TRUE
    /\ UNCHANGED <<now, devVars, result, timeout_s, restVars, duration_s, moveVars, dirVars, clickVars, navVars>>

\* lines 131-138: one iteration of the loop
both_buttons_held_iter ==
    /\ pc = "both_buttons_held"
    /\ (now - start_time) < duration_s
    /\ \E l \in Levels, r \in Levels, e \in Levels, dt \in HoldSteps :
        /\ update(l, r, e, baseline)
        /\ iter' = iter + 1
        /\ all_held' = (all_held /\ l = PRESSED /\ r = PRESSED)
        /\ IF EitherReleased(left_button', right_button')
           THEN /\ pc' = "done" /\ result' = <<FALSE>> /\ now' = now
           ELSE /\ pc' = pc /\ result' = result /\ now' = now + dt
    /\ UNCHANGED <<start_time, timeout_s, restVars, duration_s, moveVars, dirVars, clickVars, navVars>>

\* lines 131, 140: the loop test fails
both_buttons_held_exit ==
    /\ pc = "both_buttons_held"
    /\ ~((now - start_time) < duration_s)
    /\ pc' = "done"
    /\ result' = <<TRUE>>
    /\ UNCHANGED <<now, devVars, start_time, timeout_s, restVars, iter, duration_s, all_held,
                   moveVars, dirVars, clickVars, navVars>>

NextHold == both_buttons_held_begin \/ both_buttons_held_iter \/ both_buttons_held_exit

SpecHold == InitHold /\ [][NextHold]_vars

\* C6: both_buttons_held returns True exactly when every poll of the call
\* found both buttons pressed, and then the duration has elapsed; the first
\* poll that finds a button released ends the call with False, so no later
\* press can make it True.
C6_TrueIffHeldThroughout ==
    pc \in {"both_buttons_held", "done"} =>
        /\ pc = "done" => (result = <<TRUE>> <=> all_held)
        /\ ~all_held => (pc = "done" /\ result = <<FALSE>>)
        /\ result = <<TRUE>> => now - start_time >= duration_s

\* False after both buttons had been held for at least two polls
C6_Witness ==
    /\ pc = "done"
    /\ result = <<FALSE>>
    /\ iter >= 3
    /\ left_button.value = PRESSED
    /\ right_button.value = RELEASED

----------------------------------------------------------------------------
(* detect_double_click_button *)

ClickTimeouts == { << >>, <<0>>, <<5>> }
ClickSteps == {1, 2, 3}
Buttons == {"left", "right"}

\* last_x_click is not None and (now - last_x_click) <= DOUBLE_CLICK_WINDOW
IsSecondClick(last, t) == last # << >> /\ t - last[1] <= DOUBLE_CLICK_WINDOW

\* the two return True statements of one iteration
ClickSucceeds_mixed(lf, rf, ll, lr, t) ==
    (lf \/ rf) /\ (IsSecondClick(ll, t) \/ IsSecondClick(lr, t) \/ (lf /\ rf))
ClickSucceeds(lf, rf, ll, lr, t) ==
    \/ lf /\ IsSecondClick(ll, t)
    \/ rf /\ IsSecondClick(lr, t)

\* last_x_click after an iteration that does not return True
NextLastClick_first(fell, last, t) == IF fell /\ last = << >> THEN <<t>> ELSE last
NextLastClick(fell, last, t) == IF fell THEN <<t>> ELSE last

InitClick ==
    /\ CallEntry
    /\ callee = "detect_double_click_button"
    /\ NoPoll
    /\ NoLoop
    /\ NoExtra
    /\ baseline = Sample(0, 0, 0)
    /\ filtered = baseline
    /\ left_button \in ButtonStates
    /\ right_button \in ButtonStates
    /\ encoder_button = Released
    /\ timeout_s \in ClickTimeouts
    /\ NoMove
    /\ NoDir
    /\ NoHold
    /\ NoClick
    /\ NoNav

\* lines 480-483
detect_double_click_button_begin ==
    /\ pc = "call"
    /\ callee = "detect_double_click_button"
    /\ pc' = "detect_double_click_button"
    /\ last_left_click' = << >>
    /\ last_right_click' = << >>
    /\ start_time' = now
    /\ iter' = 0
    /\ prev_edge' = [b \in Buttons |-> << >>]
    /\ edges' = [b \in Buttons |-> 0]
    /\ close_pair' = FALSE
    /\ UNCHANGED <<now, devVars, result, timeout_s, restVars, moveVars, dirVars, holdVars, navVars>>

\* the history of one iteration, read at time t, with press edges lf and rf
ObserveEdges(lf, rf, t) ==
    LET f == [b \in Buttons |-> IF b = "left" THEN lf ELSE rf]
    IN  /\ prev_edge' = [b \in Buttons |-> IF f[b] THEN <<t>> ELSE prev_edge[b]]
        /\ edges' = [b \in Buttons |-> IF f[b] THEN edges[b] + 1 ELSE edges[b]]
        /\ close_pair' =
              \/ close_pair
              \/ \E b \in Buttons : /\ f[b]
                                    /\ prev_edge[b] # << >>
                                    /\ t - prev_edge[b][1] <= DOUBLE_CLICK_WINDOW

\* lines 485-517: one iteration of the loop
detect_double_click_button_iter ==
    /\ pc = "detect_double_click_button"
    /\ now < MaxClickTime
    /\ \E l \in Levels, r \in Levels, dt \in ClickSteps :
        /\ update(l, r, RELEASED, baseline)
        /\ iter' = iter + 1
        /\ ObserveEdges(left_button'.fell, right_button'.fell, now)
        /\ IF ClickSucceeds(left_button'.fell, right_button'.fell,
                            last_left_click, last_right_click, now)
           THEN /\ pc' = "done" /\ result' = <<TRUE>> /\ now' = now
                /\ UNCHANGED <<last_left_click, last_right_click>>
           ELSE /\ last_left_click' = NextLastClick(left_button'.fell, last_left_click, now)
                /\ last_right_click' = NextLastClick(right_button'.fell, last_right_click, now)
                /\ IF TimedOut(timeout_s, now - start_time)
                   THEN /\ pc' = "done" /\ result' = <<FALSE>> /\ now' = now
                   ELSE /\ pc' = pc /\ result' = result /\ now' = now + dt
    /\ UNCHANGED <<start_time, timeout_s, restVars, moveVars, dirVars, holdVars, navVars>>

NextClick == detect_double_click_button_begin \/ detect_double_click_button_iter

SpecClick == InitClick /\ [][NextClick]_vars

\* a step that is one iteration of the detect_double_click_button loop
ClickIteration == pc = "detect_double_click_button" /\ iter' = iter + 1

Fell(b) == IF b = "left" THEN left_button.fell ELSE right_button.fell
LastClick(b) == IF b = "left" THEN last_left_click ELSE last_right_click
Other(b) == IF b = "left" THEN "right" ELSE "left"

\* the edge of button b seen in an iteration read at time t comes no more than
\* DOUBLE_CLICK_WINDOW after that button's previous edge
SecondInTime(b, t) == prev_edge[b] # << >> /\ t - prev_edge[b][1] <= DOUBLE_CLICK_WINDOW

\* C7: an iteration that sees a press edge of a button no more than 0.5 s
\* after that button's previous press edge returns True.  An iteration that
\* sees a press edge more than 0.5 s after the previous one (or a first one)
\* returns True only if the other button completes a double click on it, and
\* otherwise leaves this press as the pending click of the button, from which
\* the next press is measured.
C7_DoubleClickWindow ==
    [][ ClickIteration =>
          \A b \in Buttons :
              Fell(b)' =>
                  IF SecondInTime(b, now)
                  THEN pc' = "done" /\ result' = <<TRUE>>
                  ELSE /\ result' = <<TRUE>> =>
                              (Fell(Other(b))' /\ SecondInTime(Other(b), now))
                       /\ result' # <<TRUE>> => LastClick(b)' = <<now>> ]_vars

\* the third press of the left button succeeded, the second having come too late
C7_Witness ==
    /\ result = <<TRUE>>
    /\ edges["left"] = 3
    /\ edges["right"] = 0

\* C8: detect_double_click_button returns True only if some button has had
\* two press edges of its own no more than 0.5 s apart; edges of different
\* buttons, however close, do not make it return True.
C8_NoCrossButtonDoubleClick ==
    result = <<TRUE>> => close_pair

\* a left and a right press edge on the same iteration, and the call goes on
C8_Witness ==
    /\ pc = "detect_double_click_button"
    /\ left_button.fell
    /\ right_button.fell
    /\ edges["left"] = 1
    /\ edges["right"] = 1

----------------------------------------------------------------------------
(* detect_tilt_left, detect_tilt_forward (the countdown they can show on the  *)
(* display does not enter their result and is left out)                       *)

\* the samples the accelerometer delivers in the tilt specifications
TiltOffsets == { Sample(0, 0, 0), Sample(-300, 300, 0), Sample(300, -300, 0) }
TiltLeftTimeouts == { <<0>>, <<3>> }
TiltForwardTimeouts == { << >>, <<0>>, <<2>> }
TiltSteps == {1, 2}
\* the baselines of the calibration: level, and rolled and pitched a little
TiltBaselines == { Sample(0, 0, 960), Sample(-60, 60, 960) }

\* self.x_filtered < -TILT_THRESHOLD
TiltedLeft_relative(filt) == filt["x"] - baseline["x"] < -TILT_THRESHOLD
TiltedLeft(filt) == filt["x"] < -TILT_THRESHOLD
\* self.y_filtered > TILT_THRESHOLD
\* the tilt test placed after the timeout test
TiltedForward_in_time(filt) ==
    filt["y"] > TILT_THRESHOLD /\ ~TimedOut(timeout_s, now - start_time)
TiltedForward(filt) == filt["y"] > TILT_THRESHOLD

InitTilt ==
    /\ CallEntry
    /\ NoPoll
    /\ NoLoop
    /\ NoExtra
    /\ ButtonsReleased
    /\ baseline \in TiltBaselines
    /\ \E off \in TiltOffsets : filtered = Shift(off, baseline)
    /\ NoMove
    /\ NoDir
    /\ NoHold
    /\ NoClick
    /\ NoNav

InitTiltLeft ==
    /\ InitTilt
    /\ callee = "detect_tilt_left"
    /\ timeout_s \in TiltLeftTimeouts

InitTiltForward ==
    /\ InitTilt
    /\ callee = "detect_tilt_forward"
    /\ timeout_s \in TiltForwardTimeouts

\* line 251
detect_tilt_left_begin ==
    /\ pc = "call"
    /\ callee = "detect_tilt_left"
    /\ pc' = "detect_tilt_left"
    /\ start_time' = now
    /\ iter' = 0
    /\ UNCHANGED <<now, devVars, result, timeout_s, restVars,
                   moveVars, dirVars, holdVars, clickVars, navVars>>

\* lines 258-271: one iteration of the loop
detect_tilt_left_iter ==
    /\ pc = "detect_tilt_left"
    /\ (now - start_time) < timeout_s[1]
    /\ \E off \in TiltOffsets, dt \in TiltSteps :
        /\ update(RELEASED, RELEASED, RELEASED, Shift(off, baseline))
        /\ iter' = iter + 1
        /\ IF TiltedLeft(filtered')
           THEN /\ pc' = "done" /\ result' = <<TRUE>> /\ now' = now
           ELSE /\ pc' = pc /\ result' = result /\ now' = now + dt
    /\ UNCHANGED <<start_time, timeout_s, restVars,
                   moveVars, dirVars, holdVars, clickVars, navVars>>

\* lines 258, 273: the loop test fails
detect_tilt_left_exit ==
    /\ pc = "detect_tilt_left"
    /\ ~((now - start_time) < timeout_s[1])
    /\ pc' = "done"
    /\ result' = <<FALSE>>
    /\ UNCHANGED <<now, devVars, start_time, timeout_s, restVars, iter,
                   moveVars, dirVars, holdVars, clickVars, navVars>>

NextTiltLeft == detect_tilt_left_begin \/ detect_tilt_left_iter \/ detect_tilt_left_exit

\* line 287
detect_tilt_forward_begin ==
    /\ pc = "call"
    /\ callee = "detect_tilt_forward"
    /\ pc' = "detect_tilt_forward"
    /\ start_time' = now
    /\ iter' = 0
    /\ UNCHANGED <<now, devVars, result, timeout_s, restVars,
                   moveVars, dirVars, holdVars, clickVars, navVars>>

\* lines 297-317: one iteration of the loop
detect_tilt_forward_iter ==
    /\ pc = "detect_tilt_forward"
    /\ now < MaxTiltTime
    /\ \E off \in TiltOffsets, dt \in TiltSteps :
        /\ update(RELEASED, RELEASED, RELEASED, Shift(off, baseline))
        /\ iter' = iter + 1
        /\ IF TiltedForward(filtered')
           THEN /\ pc' = "done" /\ result' = <<TRUE>> /\ now' = now
           ELSE IF TimedOut(timeout_s, now - start_time)
           THEN /\ pc' = "done" /\ result' = <<FALSE>> /\ now' = now
           ELSE /\ pc' = pc /\ result' = result /\ now' = now + dt
    /\ UNCHANGED <<start_time, timeout_s, restVars,
                   moveVars, dirVars, holdVars, clickVars, navVars>>

NextTiltForward == detect_tilt_forward_begin \/ detect_tilt_forward_iter

\* what an iteration of a tilt detector returns: True exactly when the filtered
\* X (Y) value it has just read is beyond TILT_THRESHOLD
TiltTick ==
    /\ (pc = "detect_tilt_left" /\ iter' = iter + 1) =>
          (result' = <<TRUE>> <=> filtered'["x"] < -TILT_THRESHOLD)
    /\ (pc = "detect_tilt_forward" /\ iter' = iter + 1) =>
          (result' = <<TRUE>> <=> filtered'["y"] > TILT_THRESHOLD)

\* C24: the tilt detectors are single-tick triggers on the filtered value
\* itself, not on its difference from the baseline: an iteration of
\* detect_tilt_left returns True exactly when x_filtered < -TILT_THRESHOLD after
\* its update(), an iteration of detect_tilt_forward exactly when
\* y_filtered > TILT_THRESHOLD, so each returns True on the first polled tick
\* that satisfies its test, without a confirmation window.
C24_TiltTriggersOnFilteredValue == [][TiltTick]_vars

\* detect_tilt_left returned True on its first iteration with an X value that
\* is beyond the threshold while its difference from the baseline is not
C24_Witness ==
    /\ callee = "detect_tilt_left"
    /\ result = <<TRUE>>
    /\ iter = 1
    /\ filtered["x"] < -TILT_THRESHOLD
    /\ filtered["x"] - baseline["x"] >= -TILT_THRESHOLD

----------------------------------------------------------------------------
(* navigate_choice *)

NavChoices == {1, 2, 3}
NavTimeouts == {20}
NavSteps == {5, 12}

\* int(v) of the float v = n / d: truncation towards zero
IntTrunc(n, d) == IF n >= 0 THEN n \div d ELSE -((-n) \div d)

\* int(timeout_s - (time.monotonic() - start_time))
Remaining(t, elapsed) == IntTrunc(t - elapsed, 10)

\* current_index after a left press, after a right press
NavLeft_clamp(i, n) == IF i = 0 THEN 0 ELSE i - 1
NavLeft(i, n) == (i - 1) % n
NavRight(i, n) == (i + 1) % n

\* the index after the presses of one iteration: left first, then right
NavIndex(i, lf, rf, n) ==
    LET afterLeft == IF lf THEN NavLeft(i, n) ELSE i
    IN  IF rf THEN NavRight(afterLeft, n) ELSE afterLeft

\* what display_callback was last called with after the presses of one
\* iteration that leave the index at i and the countdown at rem
NavShown_left_only(sh, i, lf, rf, rem) ==
    IF lf THEN [index |-> i, countdown |-> rem] ELSE sh
NavShown(sh, i, lf, rf, rem) ==
    IF lf \/ rf THEN [index |-> i, countdown |-> rem] ELSE sh

\* remaining < last_countdown: the countdown shown is due for a refresh
CountdownDue_le(rem, last) == rem <= last
CountdownDue(rem, last) == rem < last

\* (time.monotonic() - start_time) > timeout_s
NavTimedOut_ge(t, elapsed) == elapsed >= t
NavTimedOut(t, elapsed) == elapsed > t

\* the number of display_callback calls of one iteration
NavCallbacks(lf, rf, ef, rem, last) ==
    (IF lf THEN 1 ELSE 0) + (IF rf THEN 1 ELSE 0)
    + (IF ~ef /\ CountdownDue(rem, last) THEN 1 ELSE 0)

InitNav ==
    /\ CallEntry
    /\ callee = "navigate_choice"
    /\ NoPoll
    /\ NoLoop
    /\ NoExtra
    /\ baseline = Sample(0, 0, 0)
    /\ filtered = baseline
    /\ left_button \in ButtonStates
    /\ right_button \in ButtonStates
    /\ encoder_button \in ButtonStates
    /\ timeout_s \in {<<t>> : t \in NavTimeouts}
    /\ n_choices \in NavChoices
    /\ current_index = 0
    /\ last_countdown = 0
    /\ shown = [index |-> 0, countdown |-> 0]
    /\ net = 0
    /\ callbacks = 0
    /\ NoMove
    /\ NoDir
    /\ NoHold
    /\ NoClick

\* lines 532-536
navigate_choice_begin ==
    /\ pc = "call"
    /\ callee = "navigate_choice"
    /\ pc' = "navigate_choice"
    /\ current_index' = 0
    /\ start_time' = now
    /\ last_countdown' = timeout_s[1] \div 10
    /\ shown' = [index |-> 0, countdown |-> timeout_s[1] \div 10]
    /\ iter' = 0
    /\ net' = 0
    /\ callbacks' = 1
    /\ UNCHANGED <<now, devVars, result, timeout_s, restVars, n_choices,
                   moveVars, dirVars, holdVars, clickVars>>

\* lines 538-566: one iteration of the loop
navigate_choice_iter ==
    /\ pc = "navigate_choice"
    /\ \E l \in Levels, r \in Levels, e \in Levels, dt \in NavSteps :
        /\ update(l, r, e, baseline)
        /\ iter' = iter + 1
        /\ LET lf == left_button'.fell
               rf == right_button'.fell
               rem == Remaining(timeout_s[1], now - start_time)
               idx == NavIndex(current_index, lf, rf, n_choices)
               pressed == NavShown(shown, idx, lf, rf, rem)
           IN  /\ current_index' = idx
               /\ net' = net + (IF rf THEN 1 ELSE 0) - (IF lf THEN 1 ELSE 0)
               /\ callbacks' = NavCallbacks(lf, rf, encoder_button'.fell, rem, last_countdown)
               /\ IF encoder_button'.fell
                  THEN /\ pc' = "done" /\ result' = <<idx>> /\ now' = now
                       /\ shown' = pressed
                       /\ UNCHANGED last_countdown
                  ELSE /\ IF CountdownDue(rem, last_countdown)
                          THEN /\ shown' = [index |-> idx, countdown |-> rem]
                               /\ last_countdown' = rem
                          ELSE /\ shown' = pressed
                               /\ UNCHANGED last_countdown
                       /\ IF NavTimedOut(timeout_s[1], now - start_time)
                          THEN /\ pc' = "done" /\ result' = <<-1>> /\ now' = now
                          ELSE /\ pc' = pc /\ result' = result /\ now' = now + dt
    /\ UNCHANGED <<start_time, timeout_s, restVars, n_choices,
                   moveVars, dirVars, holdVars, clickVars>>

NextNav == navigate_choice_begin \/ navigate_choice_iter

SpecNav == InitNav /\ [][NextNav]_vars

\* C9: navigate_choice starts at index 0, and after any presses the index is
\* a valid index of choices and equals the number of right press edges minus
\* the number of left press edges, modulo len(choices): every left press
\* steps one down, every right press one up, wrapping at both ends.
C9_IndexIsNetPressesModulo ==
    pc \in {"navigate_choice", "done"} =>
        /\ current_index \in 0..(n_choices - 1)
        /\ current_index = net % n_choices
        /\ iter = 0 => current_index = 0

\* a left press at index 0 wrapped to the last of three choices
C9_Witness ==
    /\ pc = "navigate_choice"
    /\ n_choices = 3
    /\ net = -1
    /\ current_index = 2

\* C10: a call that ends on an encoder press edge returns the index current on
\* that iteration, which is the index display_callback was last called with;
\* the value returned is -1 or a valid index of choices.
C10_CommitReturnsShownIndex ==
    pc \in {"navigate_choice", "done"} =>
        /\ shown.index = current_index
        /\ pc = "done" =>
              /\ result[1] = -1 \/ result[1] \in 0..(n_choices - 1)
              /\ encoder_button.fell =>
                    /\ result = <<current_index>>
                    /\ result = <<shown.index>>

\* an encoder press on the iteration of a right press returns the new index
C10_Witness ==
    /\ pc = "done"
    /\ encoder_button.fell
    /\ right_button.fell
    /\ ~left_button.fell
    /\ n_choices = 3
    /\ result = <<2>>

\* a step that is one iteration of the navigate_choice loop
NavIteration == pc = "navigate_choice" /\ iter' = iter + 1

\* C11: an iteration of navigate_choice returns -1 exactly when it sees no
\* encoder press edge and more than timeout_s has passed since the call began;
\* it returns an index exactly when it sees an encoder press edge, so left and
\* right presses alone never end the call; no earlier iteration of the call
\* has seen an encoder press edge; and no iteration, whatever is pressed,
\* changes the start time or the timeout the elapsed time is measured with.
C11_TimeoutIffNoEncoderPress ==
    [][ NavIteration =>
          /\ (pc' = "done" /\ result' = <<-1>>)
                <=> (~encoder_button'.fell /\ now - start_time > timeout_s[1])
          /\ (pc' = "done" /\ result' # <<-1>>) <=> encoder_button'.fell
          /\ pc' # "done" => (pc' = pc /\ result' = << >>)
          /\ iter > 0 => ~encoder_button.fell
          /\ start_time' = start_time
          /\ timeout_s' = timeout_s ]_vars

\* the call timed out on an iteration with a right press, the index having moved
C11_Witness ==
    /\ pc = "done"
    /\ result = <<-1>>
    /\ right_button.fell
    /\ current_index # 0
    /\ now - start_time > timeout_s[1]

\* C12: an iteration of navigate_choice calls display_callback only if it sees
\* a left or right press edge or its integer countdown is lower than the
\* countdown display_callback was last called with; an iteration with no press
\* and a countdown that is not lower makes no call and leaves the display as
\* it was.
C12_CallbackOnlyOnPressOrCountdown ==
    [][ NavIteration =>
          LET press == left_button'.fell \/ right_button'.fell
              lower == Remaining(timeout_s[1], now - start_time) < shown.countdown
          IN  /\ callbacks' > 0 => (press \/ lower)
              /\ (~press /\ ~lower) => (callbacks' = 0 /\ shown' = shown) ]_vars

\* an iteration without a press that refreshed the countdown, which has gone
\* down since the call began
C12_Witness ==
    /\ pc = "navigate_choice"
    /\ iter >= 2
    /\ callbacks = 1
    /\ ~left_button.fell
    /\ ~right_button.fell
    /\ shown.countdown < timeout_s[1] \div 10

----------------------------------------------------------------------------
(* detect_movement with an accelerometer whose read can fail *)

\* line 172 with update() raising at line 87: neither update() nor
\* detect_movement handles the exception, which ends the call and reaches the
\* caller; the call returns no value
detect_movement_raise ==
    /\ pc = "detect_movement"
    /\ now < MaxMoveTime
    /\ update_raising(RELEASED, RELEASED, RELEASED)
    /\ iter' = iter + 1
    /\ pc' = "raised"
    /\ UNCHANGED <<now, result, start_time, timeout_s, restVars, required, confirm_count,
                   detected, quiet, last_below, strong,
                   dirVars, holdVars, clickVars, navVars>>

NextFault == NextMove \/ detect_movement_raise

SpecFault == InitMove /\ [][NextFault]_vars

\* C15: a failing accelerometer read inside a blocking detector is not
\* propagated to the caller: no call of detect_movement ends with the
\* exception of the read leaving it.
C15_ReadFaultNotPropagated ==
    pc # "raised"

----------------------------------------------------------------------------
(* update() called from a polling loop, and the button queries *)

ButtonNames == {"left", "right", "encoder"}

\* encoder_button_pressed(), left_button_pressed(), right_button_pressed()
encoder_button_pressed == encoder_button.fell
left_button_pressed == left_button.fell
right_button_pressed == right_button.fell

InitPoll ==
    /\ CallEntry
    /\ callee = "update"
    /\ baseline = Sample(0, 0, 0)
    /\ filtered = baseline
    /\ left_button \in {Released, [value |-> PRESSED, fell |-> FALSE]}
    /\ right_button \in {Released, [value |-> PRESSED, fell |-> FALSE]}
    /\ encoder_button \in {Released, [value |-> PRESSED, fell |-> FALSE]}
    /\ timeout_s = << >>
    /\ prev_level = [b \in ButtonNames |->
                       CASE b = "left" -> left_button.value
                         [] b = "right" -> right_button.value
                         [] OTHER -> encoder_button.value]
    /\ since_press = [b \in ButtonNames |-> 0]
    /\ NoLoop
    /\ NoExtra
    /\ NoMove
    /\ NoDir
    /\ NoHold
    /\ NoClick
    /\ NoNav

\* the history of one update() that samples the levels lv
ObserveLevels(lv) ==
    /\ since_press' = [b \in ButtonNames |->
                         IF prev_level[b] = RELEASED /\ lv[b] = PRESSED THEN 1
                         ELSE IF lv[b] = PRESSED /\ since_press[b] > 0
                              THEN since_press[b] + 1
                              ELSE 0]
    /\ prev_level' = lv

\* one pass of a polling loop of the game: self.inputs.update(), then a sleep
update_call ==
    /\ pc = "call"
    /\ callee = "update"
    /\ iter < MaxUpdates
    /\ \E l \in Levels, r \in Levels, e \in Levels :
        /\ update(l, r, e, baseline)
        /\ ObserveLevels([b \in ButtonNames |->
                            CASE b = "left" -> l [] b = "right" -> r [] OTHER -> e])
    /\ iter' = iter + 1
    /\ now' = now + 1
    /\ UNCHANGED <<pc, result, start_time, timeout_s, callerVars, loopVars, extraVars,
                   moveVars, dirVars, holdVars, clickVars, navVars>>

NextPoll == update_call

SpecPoll == InitPoll /\ [][NextPoll]_vars

\* the query of button b
Pressed(b) ==
    CASE b = "left" -> left_button_pressed
      [] b = "right" -> right_button_pressed
      [] OTHER -> encoder_button_pressed

\* C16: for each of the left, right and encoder buttons, the *_pressed() query
\* is true exactly when one update() has been called since the level of the
\* button last went from released to pressed: it is true after the first
\* update() that follows the transition and false after every later one, for
\* as long as the button stays pressed, and false while no transition has
\* happened.
C16_PressedForOneUpdate ==
    \A b \in ButtonNames : Pressed(b) <=> since_press[b] = 1

\* the left button has been held for three updates while the right button has
\* just been pressed
C16_Witness ==
    /\ since_press["left"] = 3
    /\ ~left_button_pressed
    /\ since_press["right"] = 1
    /\ right_button_pressed

----------------------------------------------------------------------------
(* The statements of one iteration of every blocking loop, in source order:  *)
(* "update" is self.update(); "read" reads a button, the encoder button or a *)
(* filtered accelerometer value; "other" is any other statement (the clock,  *)
(* a callback, the display, the tap event, a loop test); "sleep" ends the    *)
(* iteration.                                                                *)

Routines ==
    { "wait_for_encoder_press", "both_buttons_held", "detect_movement",
      "detect_tilt_left", "detect_tilt_forward", "detect_tilt_forward_z", "stay_still",
      "detect_all_six_directions", "detect_double_tap", "detect_double_click_button",
      "navigate_choice" }

LoopBody_read_first(r) == <<"read", "update", "sleep">>
LoopBody(r) ==
    CASE r = "wait_for_encoder_press" -> <<"update", "read", "sleep">>
      [] r = "both_buttons_held" -> <<"other", "update", "read", "sleep">>
      [] r = "detect_movement" ->
            <<"update", "read", "other", "other", "other", "other", "sleep">>
      [] r = "detect_tilt_left" -> <<"other", "update", "read", "other", "sleep">>
      [] r = "detect_tilt_forward" -> <<"update", "read", "other", "other", "sleep">>
      [] r = "detect_tilt_forward_z" -> <<"other", "update", "read", "sleep">>
      [] r = "stay_still" -> <<"other", "update", "read", "sleep">>
      [] r = "detect_all_six_directions" ->
            <<"update", "other", "read", "other", "other", "other", "sleep">>
      [] r = "detect_double_tap" -> <<"update", "other", "other", "other", "sleep">>
      [] r = "detect_double_click_button" ->
            <<"update", "other", "read", "read", "other", "other", "sleep">>
      [] OTHER -> <<"update", "read", "read", "read", "other", "other", "sleep">>

InitLoops ==
    /\ CallEntry
    /\ callee \in Routines
    /\ ButtonsReleased
    /\ baseline = Sample(0, 0, 0)
    /\ filtered = baseline
    /\ timeout_s = << >>
    /\ NoPoll
    /\ NoLoop
    /\ NoExtra
    /\ NoMove
    /\ NoDir
    /\ NoHold
    /\ NoClick
    /\ NoNav

\* the statement the loop is at
Statement == LoopBody(callee)[stmt]

\* what a step of a loop leaves alone
LoopFrame ==
    UNCHANGED <<now, devVars, result, start_time, timeout_s, callerVars, pollVars, extraVars,
                moveVars, dirVars, holdVars, clickVars, navVars>>

\* the routine is entered and reaches the top of its loop
loop_enter ==
    /\ pc = "call"
    /\ callee \in Routines
    /\ pc' = "loop"
    /\ stmt' = 1
    /\ updated' = 0
    /\ iter' = 0
    /\ UNCHANGED early_read
    /\ LoopFrame

\* self.update()
loop_update ==
    /\ pc = "loop"
    /\ Statement = "update"
    /\ updated' = updated + 1
    /\ stmt' = stmt + 1
    /\ UNCHANGED <<pc, iter, early_read>>
    /\ LoopFrame

\* a statement that reads a button or a filtered value, and goes on
loop_read ==
    /\ pc = "loop"
    /\ Statement = "read"
    /\ early_read' = (early_read \/ updated = 0)
    /\ stmt' = stmt + 1
    /\ UNCHANGED <<pc, iter, updated>>
    /\ LoopFrame

\* any other statement, going on
loop_other ==
    /\ pc = "loop"
    /\ Statement = "other"
    /\ stmt' = stmt + 1
    /\ UNCHANGED <<pc, iter, updated, early_read>>
    /\ LoopFrame

\* a test on what was read, or on the clock, returns from the routine
loop_return ==
    /\ pc = "loop"
    /\ Statement \in {"read", "other"}
    /\ early_read' = (early_read \/ (Statement = "read" /\ updated = 0))
    /\ pc' = "done"
    /\ UNCHANGED <<stmt, iter, updated>>
    /\ LoopFrame

\* time.sleep(...), and the next iteration begins
loop_sleep ==
    /\ pc = "loop"
    /\ Statement = "sleep"
    /\ iter < MaxLoopIters
    /\ stmt' = 1
    /\ updated' = 0
    /\ iter' = iter + 1
    /\ UNCHANGED <<pc, early_read>>
    /\ LoopFrame

NextLoops ==
    \/ loop_enter
    \/ loop_update
    \/ loop_read
    \/ loop_other
    \/ loop_return
    \/ loop_sleep

SpecLoops == InitLoops /\ [][NextLoops]_vars

\* C17: in every iteration of every blocking loop, no button, encoder button
\* or filtered accelerometer value is read before update() has been called in
\* that iteration, update() is never called a second time in an iteration,
\* and an iteration that reaches its sleep has called update() once.
C17_UpdateOnceBeforeReads ==
    pc \in {"loop", "done"} =>
        /\ ~early_read
        /\ updated <= 1
        /\ (pc = "loop" /\ Statement = "sleep") => updated = 1

\* navigate_choice is at its third read of the second iteration
C17_Witness ==
    /\ callee = "navigate_choice"
    /\ pc = "loop"
    /\ iter = 1
    /\ stmt = 4
    /\ updated = 1

----------------------------------------------------------------------------
(* Calls repeated: the caller makes its call again after it has returned *)

call_again ==
    /\ pc = "done"
    /\ calls < MaxCalls
    /\ pc' = "call"
    /\ calls' = calls + 1
    /\ result' = << >>
    /\ UNCHANGED <<now, devVars, start_time, timeout_s, iter, callee, pollVars, loopVars, extraVars,
                   moveVars, dirVars, holdVars, clickVars, navVars>>

InitRecall == InitMove \/ InitDir

NextRecall == NextMove \/ NextDir \/ call_again

SpecRecall == InitRecall /\ [][NextRecall]_vars

----------------------------------------------------------------------------
(* One call of any of the blocking detectors *)

InitDetect ==
    \/ InitMove
    \/ InitDir
    \/ InitClick
    \/ InitTiltLeft
    \/ InitTiltForward

NextDetect ==
    \/ NextMove
    \/ NextDir
    \/ NextClick
    \/ NextTiltLeft
    \/ NextTiltForward

SpecDetect == InitDetect /\ [][NextDetect]_vars

\* C13: detect_movement, detect_tilt_left, detect_tilt_forward,
\* detect_all_six_directions and detect_double_click_button have the result
\* False only once they have returned, only when called with a timeout, and
\* only with the time elapsed since the call began, read on its last
\* iteration, at least that timeout.
C13_FalseOnlyAfterTimeout ==
    result = <<FALSE>> =>
        /\ pc = "done"
        /\ timeout_s # << >>
        /\ now - start_time >= timeout_s[1]

\* detect_tilt_left has polled and returns False at the very moment the elapsed
\* time reaches the timeout
C13_Witness ==
    /\ callee = "detect_tilt_left"
    /\ result = <<FALSE>>
    /\ iter >= 2
    /\ now - start_time = timeout_s[1]

\* the gesture condition of the call, as met by its iterations so far
GestureMet ==
    CASE callee = "detect_movement" ->
            IF required = << >>
            THEN \E a \in Axes : Diff(a) > MOTION_THRESHOLD
            ELSE required[1] \subseteq strong
      [] callee = "detect_tilt_forward" -> filtered["y"] > TILT_THRESHOLD
      [] callee = "detect_all_six_directions" ->
            /\ "x" \in axes_set => {"+X", "-X"} \subseteq crossed
            /\ "y" \in axes_set => {"+Y", "-Y"} \subseteq crossed
            /\ "z" \in axes_set => {"+Z", "-Z"} \subseteq crossed_z
      [] callee = "detect_double_click_button" -> close_pair
      [] callee = "detect_double_tap" -> tap_pair
      [] OTHER -> FALSE

\* C14: called with timeout None, detect_movement, detect_tilt_forward,
\* detect_all_six_directions and detect_double_click_button never have the
\* result False; when they have returned, the result is True and the gesture
\* condition is met; and they go on after an iteration only if the gesture
\* condition is not met on it, so they return True on the first iteration on
\* which it is.
C14_NoTimeoutReturnsOnGesture ==
    (timeout_s = << >> /\ callee # "detect_tilt_left") =>
        /\ result # <<FALSE>>
        /\ pc = "done" => (result = <<TRUE>> /\ GestureMet)
        /\ (pc = callee /\ iter > 0) => ~GestureMet

\* without a timeout, detect_double_click_button returned True later than any
\* timeout of the model would have allowed
C14_Witness ==
    /\ callee = "detect_double_click_button"
    /\ timeout_s = << >>
    /\ result = <<TRUE>>
    /\ now - start_time > 7

\* C18: a step of a running detect_movement or detect_all_six_directions call
\* removes nothing from detected or from self.directions_detected.
C18_DetectedSetsOnlyGrow ==
    [][ (pc = "detect_movement" \/ pc = "detect_all_six_directions") =>
          /\ detected \subseteq detected'
          /\ directions_detected \subseteq directions_detected' ]_vars

\* +X stays in the set while the filtered value is beyond the threshold on
\* the negative side
C18_Witness ==
    /\ pc = "detect_all_six_directions"
    /\ "+X" \in directions_detected
    /\ filtered["x"] < -TILT_THRESHOLD

\* C19: every detect_movement call begins with all counters 0 and detected
\* empty, and every detect_all_six_directions call with
\* self.directions_detected empty, whatever an earlier call has left; and a
\* call, the first or a later one, returns True only if its gesture condition
\* has been met by its own iterations.
C19_NoCarryOverBetweenCalls ==
    [][ /\ (pc = "call" /\ pc' = "detect_movement") =>
              /\ confirm_count' = [a \in Axes |-> 0]
              /\ detected' = {}
        /\ (pc = "call" /\ pc' = "detect_all_six_directions") =>
              directions_detected' = {}
        /\ (pc' = "done" /\ result' = <<TRUE>>) => GestureMet' ]_vars

\* a second call of detect_movement has begun with its counters at 0 while x
\* is still far above the threshold, the first call having run for at least
\* five iterations
C19_Witness ==
    /\ calls = 1
    /\ pc = "detect_movement"
    /\ required # << >>
    /\ iter = 0
    /\ now >= 4
    /\ confirm_count["x"] = 0
    /\ Diff("x") > StrongThreshold

----------------------------------------------------------------------------
(* One call of any routine of InputManager, or a polling loop calling update() *)

InitSession ==
    \/ InitDetect
    \/ InitHold
    \/ InitNav
    \/ InitPoll

NextSession ==
    \/ NextDetect
    \/ NextHold
    \/ NextNav
    \/ NextPoll

SpecSession == InitSession /\ [][NextSession]_vars

\* C20: no step of update(), of a detector or of any other routine of
\* InputManager changes the baseline the constructor has calibrated.
C20_BaselineNeverChanges ==
    [][ baseline' = baseline ]_vars

\* detect_movement has returned with the filtered values away from a baseline
\* that is not zero
C20_Witness ==
    /\ pc = "done"
    /\ callee = "detect_movement"
    /\ baseline = Sample(12, -12, 60)
    /\ \A a \in Axes : filtered[a] # baseline[a]

----------------------------------------------------------------------------
(* The filter state across calls *)

\* the samples the accelerometer delivers to the calls of SpecRecall
Delivered == { Shift(off, baseline) : off \in MoveOffsets \cup DirOffsets }

\* new is alpha * raw + (1 - alpha) * old, to the precision of the representation
\* (half a representable step of 0.06)
IsEma(new, raw, old) ==
    Abs(100 * new - (ACCEL_EMA_ALPHA * raw + (100 - ACCEL_EMA_ALPHA) * old)) <= 300

\* C21: the filtered triple is written only by update(): a step that is an
\* iteration of a polling loop (one update() call) replaces each axis with
\* alpha * raw + (1 - alpha) * previous for the sample raw it read, and every
\* other step (the entry of a call, its return, the next call being made)
\* leaves the triple as it is, so that a call starts from the filter state the
\* call before it left.
C21_FilteredWrittenOnlyByUpdate ==
    [][ IF iter' = iter + 1
        THEN \E raw \in Delivered :
                \A a \in Axes : IsEma(filtered'[a], raw[a], filtered[a])
        ELSE filtered' = filtered ]_vars

\* the second call of detect_movement starts with the filter state that made
\* the first one return True (0.42 from the baseline on X, which no
\* construction leaves)
C21_Witness ==
    /\ calls = 1
    /\ pc = "detect_movement"
    /\ iter = 0
    /\ result = << >>
    /\ filtered["x"] - baseline["x"] = 42

----------------------------------------------------------------------------
(* AccelerometerFilter.ema_filter fed with the same raw value on every tick *)

\* the smoothing factors (0.1 ... 1.0) and the raw and first filtered values
EmaAlphas == {10, 30, 50, 90, 100}
EmaValues == {-60, 0, 6, 60, 120}

InitEma ==
    /\ CallEntry
    /\ callee = "ema_filter"
    /\ NoLate
    /\ ButtonsReleased
    /\ baseline = Sample(0, 0, 0)
    /\ filtered = baseline
    /\ timeout_s = << >>
    /\ ema_alpha \in EmaAlphas
    /\ ema_raw \in EmaValues
    /\ ema_filtered \in EmaValues
    /\ ema_first = ema_filtered
    /\ NoGame
    /\ NoTick
    /\ NoReader
    /\ NoPoll
    /\ stmt = 0
    /\ updated = 0
    /\ early_read = FALSE
    /\ NoMove
    /\ NoDir
    /\ NoHold
    /\ NoClick
    /\ NoNav

\* one tick: filtered = ema_filter(raw, filtered, alpha)
ema_tick ==
    /\ callee = "ema_filter"
    /\ ema_filtered' = ema_filter(ema_raw, ema_filtered, ema_alpha)
    /\ UNCHANGED <<now, devVars, callVars, moveVars, dirVars, holdVars, clickVars, navVars,
                   callerVars, pollVars, loopVars, gameVars, tickVars, readerVars, lateVars,
                   ema_alpha, ema_raw, ema_first>>

NextEma == ema_tick

\* the polling loops call update(), and with it the filter, on every iteration
SpecEma == InitEma /\ [][NextEma]_vars /\ WF_vars(ema_tick)

\* what one tick does to the distance from the raw value: it is multiplied by
\* 1 - alpha (to the precision of the representation), it does not grow, and
\* the filtered value does not pass to the other side of the raw value
EmaTick ==
    LET before == ema_filtered - ema_raw
        after == ema_filtered' - ema_raw
    IN  /\ Abs(100 * Abs(after) - (100 - ema_alpha) * Abs(before)) <= 300
        /\ Abs(after) <= Abs(before)
        /\ before * after >= 0

\* the filtered value is as close to the raw value as the representation lets
\* the filter bring it: alpha times the distance is no more than half a step
EmaSettled == Abs(ema_filtered - ema_raw) <= 300 \div ema_alpha

\* C22: fed with a constant raw value v on every tick, for an alpha in (0, 1],
\* the EMA filter converges to v: every tick multiplies the distance
\* |filtered - v| by 1 - alpha, never increases it and never takes filtered
\* to the other side of v, and the filtered value ends up at v (to the
\* precision of the representation) and stays there.
C22_EmaConvergesToConstantInput ==
    /\ [][EmaTick]_vars
    /\ <>[]EmaSettled

\* with alpha 0.3 the filter, started at 0 and fed 0.60, has settled within one
\* representable step of 0.60
C22_Witness ==
    /\ callee = "ema_filter"
    /\ ema_alpha = ACCEL_EMA_ALPHA
    /\ ema_raw = 60
    /\ ema_first = 0
    /\ ema_filtered = 54
    /\ EmaSettled

----------------------------------------------------------------------------
(* Game.run: the chapters of a playthrough (src/src/game.py, src/src/chapters) *)
(* A chapter name is the sequence of its parts: "chapter_04" is              *)
(* <<"chapter", "04">>, "restart_chapter_04" is <<"restart", "chapter", "04">>. *)

LastChapter == 10
Difficulties == {"easy", "medium", "hard"}

Numerals == <<"01", "02", "03", "04", "05", "06", "07", "08", "09", "10">>
Chapter(n) == <<"chapter", Numerals[n]>>
\* f"restart_{restart_chapter}"
Restart(name) == <<"restart">> \o name
\* BaseChapter.handle_wrong_choice
handle_wrong_choice(restart_chapter) == Restart(restart_chapter)

\* self.chapters (the keys of the registry)
chapters == { Chapter(n) : n \in 1..LastChapter }

\* next_chapter.startswith("restart_")
StartsWithRestart(name) == Len(name) > 0 /\ name[1] = "restart"
\* next_chapter.replace("restart_", "")
IsRestartPart(part) == part = "restart"
IsNamePart(part) == ~IsRestartPart(part)
ReplaceRestart_keep(name) == name
ReplaceRestart(name) == SelectSeq(name, IsNamePart)

\* the values the run() method of a chapter can return with the difficulty
\* diff: one per return statement (an optional name, << >> being None)
ChapterRun_forward(name, diff) ==
    CASE name = Chapter(1) -> { <<Restart(Chapter(1))>>, <<Chapter(2)>> }
      [] name = Chapter(2) -> { <<handle_wrong_choice(Chapter(2))>>, <<Chapter(3)>> }
      [] name = Chapter(3) ->
            { <<handle_wrong_choice(IF diff = "hard" THEN Chapter(2) ELSE Chapter(3))>>,
              <<handle_wrong_choice(Chapter(3))>>, <<Chapter(4)>> }
      [] name = Chapter(4) ->
            { <<Restart(Chapter(4))>>, <<handle_wrong_choice(Chapter(4))>>, <<Chapter(5)>> }
      [] name = Chapter(5) ->
            { <<handle_wrong_choice(Chapter(5))>>, <<Restart(Chapter(5))>>, <<Chapter(6)>> }
      [] name = Chapter(6) ->
            { <<handle_wrong_choice(Chapter(7))>>, <<Restart(Chapter(5))>>, <<Chapter(7)>> }
      [] name = Chapter(7) -> { <<Restart(Chapter(7))>>, <<Chapter(8)>> }
      [] name = Chapter(8) ->
            { <<Restart(Chapter(4))>>, <<handle_wrong_choice(Chapter(4))>>, <<Chapter(9)>> }
      [] name = Chapter(9) ->
            { <<Restart(Chapter(8))>>, <<handle_wrong_choice(Chapter(9))>>, <<Chapter(10)>> }
      [] OTHER -> { << >> }
ChapterRun(name, diff) ==
    CASE name = Chapter(1) -> { <<Restart(Chapter(1))>>, <<Chapter(2)>> }
      [] name = Chapter(2) -> { <<handle_wrong_choice(Chapter(2))>>, <<Chapter(3)>> }
      [] name = Chapter(3) ->
            { <<handle_wrong_choice(IF diff = "hard" THEN Chapter(2) ELSE Chapter(3))>>,
              <<handle_wrong_choice(Chapter(3))>>, <<Chapter(4)>> }
      [] name = Chapter(4) ->
            { <<Restart(Chapter(4))>>, <<handle_wrong_choice(Chapter(4))>>, <<Chapter(5)>> }
      [] name = Chapter(5) ->
            { <<handle_wrong_choice(Chapter(5))>>, <<Restart(Chapter(5))>>, <<Chapter(6)>> }
      [] name = Chapter(6) ->
            { <<handle_wrong_choice(Chapter(4))>>, <<Restart(Chapter(5))>>, <<Chapter(7)>> }
      [] name = Chapter(7) -> { <<Restart(Chapter(7))>>, <<Chapter(8)>> }
      [] name = Chapter(8) ->
            { <<Restart(Chapter(4))>>, <<handle_wrong_choice(Chapter(4))>>, <<Chapter(9)>> }
      [] name = Chapter(9) ->
            { <<Restart(Chapter(8))>>, <<handle_wrong_choice(Chapter(9))>>, <<Chapter(10)>> }
      [] OTHER -> { << >> }

\* the time a chapter takes, in tenths of a second
GameSteps == {4, 7}
\* the time up to which chapters are started
MaxGameTime == 60

\* line 84: the test that starts the game timer
TimerStarts_restart(name, started) == ReplaceRestart(name) = Chapter(1)
TimerStarts(name, started) == name = Chapter(1) /\ started = << >>

\* Game.run_chapter: None for a name that is not registered, otherwise what
\* the chapter's run() returns
run_chapter(name, diff) ==
    IF name \notin chapters THEN { << >> } ELSE ChapterRun(name, diff)

InitGame ==
    /\ CallEntry
    /\ callee = "Game.run"
    /\ NoLate
    /\ ButtonsReleased
    /\ baseline = Sample(0, 0, 0)
    /\ filtered = baseline
    /\ timeout_s = << >>
    /\ NoGame
    /\ NoEma
    /\ NoTick
    /\ NoReader
    /\ NoPoll
    /\ stmt = 0
    /\ updated = 0
    /\ early_read = FALSE
    /\ NoMove
    /\ NoDir
    /\ NoHold
    /\ NoClick
    /\ NoNav

GameFrame ==
    UNCHANGED <<devVars, callVars, moveVars, dirVars, holdVars, clickVars, navVars,
                callerVars, pollVars, loopVars, emaVars, tickVars, readerVars, lateVars>>

\* lines 74-79: the difficulty is selected and the playthrough starts from
\* chapter 1
select_difficulty ==
    /\ callee = "Game.run"
    /\ game_pc = "select"
    /\ \E d \in Difficulties : difficulty' = <<d>>
    /\ next_chapter' = <<Chapter(1)>>
    /\ chapter_name' = << >>
    /\ passed' = {}
    /\ game_start_time' = << >>
    /\ first_entry' = << >>
    /\ timer_starts' = 0
    /\ game_pc' = "chapters"
    /\ UNCHANGED <<now, completion_time>>
    /\ GameFrame

\* lines 82-112: one iteration of the chapter loop
play_chapter ==
    /\ callee = "Game.run"
    /\ game_pc = "chapters"
    /\ next_chapter # << >>
    /\ now < MaxGameTime
    /\ IF TimerStarts(next_chapter[1], game_start_time)
       THEN /\ game_start_time' = <<now>>
            /\ timer_starts' = timer_starts + 1
       ELSE UNCHANGED <<game_start_time, timer_starts>>
    /\ \E step \in GameSteps : now' = now + step
    /\ LET name == IF StartsWithRestart(next_chapter[1])
                   THEN ReplaceRestart(next_chapter[1])
                   ELSE next_chapter[1]
       IN  \E res \in run_chapter(name, difficulty[1]) :
               /\ chapter_name' = <<name>>
               /\ first_entry' = IF name = Chapter(1) /\ first_entry = << >>
                                  THEN <<now>>
                                  ELSE first_entry
               /\ next_chapter' = res
               /\ passed' = IF res # << >> /\ StartsWithRestart(res[1])
                             THEN passed
                             ELSE passed \cup {name}
               /\ game_pc' = IF res = << >> THEN "completed" ELSE "chapters"
    /\ UNCHANGED <<difficulty, completion_time>>
    /\ GameFrame

\* lines 114-128: the playthrough is over; the player is asked whether to
\* play again
prompt_restart ==
    /\ callee = "Game.run"
    /\ game_pc = "completed"
    /\ completion_time' = <<IntTrunc(now - game_start_time[1], 10)>>
    /\ \E again \in BOOLEAN : game_pc' = IF again THEN "select" ELSE "over"
    /\ UNCHANGED <<now, difficulty, next_chapter, chapter_name, passed, game_start_time,
                   first_entry, timer_starts>>
    /\ GameFrame

NextGame == select_difficulty \/ play_chapter \/ prompt_restart

SpecGame == InitGame /\ [][NextGame]_vars

\* the number of a registered chapter
NumberOf(name) == CHOOSE n \in 1..LastChapter : name = Chapter(n)
\* the command "restart_chapter_N"
RestartCommand(n) == <<"restart", "chapter", Numerals[n]>>
IsRestartCommand(res) == res # << >> /\ res[1][1] = "restart"

\* an iteration of the chapter loop routes a restart command back
RoutesBack ==
    game_pc = "chapters" =>
        /\ chapter_name'[1] \in chapters
        /\ IsRestartCommand(next_chapter') =>
              /\ \E n \in 1..NumberOf(chapter_name'[1]) : next_chapter' = <<RestartCommand(n)>>
              /\ game_pc' = "chapters"
        /\ \A n \in 1..LastChapter :
              next_chapter = <<RestartCommand(n)>> => chapter_name' = <<Chapter(n)>>

\* C26: a wrong answer routes back, never forward: when the run() of a chapter
\* returns "restart_chapter_N", N is the number of that chapter or a smaller
\* one, the chapter loop goes on, and the chapter that Game.run runs next is
\* chapter N.
C26_RestartRoutesBack == [][RoutesBack]_vars

\* chapter 4 has been run again after chapter 7 had been passed (chapter 8
\* had returned "restart_chapter_04") and has returned a restart command
C26_Witness ==
    /\ game_pc = "chapters"
    /\ chapter_name = <<Chapter(4)>>
    /\ Chapter(7) \in passed
    /\ IsRestartCommand(next_chapter)

\* an iteration of the chapter loop keeps the order of the chapters
InOrder ==
    game_pc = "chapters" =>
        LET k == NumberOf(chapter_name'[1])
        IN  /\ chapter_name'[1] \in chapters
            /\ k > 1 => Chapter(k - 1) \in passed
            /\ (next_chapter' # << >> /\ ~IsRestartCommand(next_chapter')) =>
                  (k < LastChapter /\ next_chapter' = <<Chapter(k + 1)>>)
            /\ game_pc' = "completed" <=> (k = LastChapter /\ next_chapter' = << >>)
            /\ game_pc' = "completed" \/ game_pc' = "chapters"

\* C29: a playthrough visits the chapters in order: chapter k (k > 1) is run
\* only when chapter k-1 has returned a success result earlier in the same
\* playthrough, a success result of chapter k is exactly chapter k+1, and the
\* chapter loop ends only when chapter_10 has returned None.
C29_ChaptersInOrder == [][InOrder]_vars

\* a playthrough is complete: chapter 10 has returned None and every chapter
\* has been passed
C29_Witness ==
    /\ game_pc = "completed"
    /\ chapter_name = <<Chapter(LastChapter)>>
    /\ next_chapter = << >>
    /\ passed = chapters

----------------------------------------------------------------------------
(* The blocking routines called with a finite positive timeout *)

\* the timeout of the call (duration_s for both_buttons_held) is a positive
\* number
FinitePositiveTimeout ==
    IF callee = "both_buttons_held" THEN duration_s > 0 ELSE Truthy(timeout_s)

InitTimed ==
    /\ InitDetect \/ InitHold \/ InitNav
    /\ FinitePositiveTimeout

NextTimed == NextDetect \/ NextHold \/ NextNav

\* a routine that has been called goes on: its loop runs until it returns
SpecTimed == InitTimed /\ [][NextTimed]_vars /\ WF_vars(NextTimed)

----------------------------------------------------------------------------
(* update(), statement by statement, called from a loop that reads the      *)
(* device values                                                            *)

\* lines 81-90: the statements of update()
UpdateBody_short == <<"encoder", "encoder_button", "left_button", "right_button">>
UpdateBody ==
    <<"encoder", "encoder_button", "left_button", "right_button", "acceleration",
      "x_filtered", "y_filtered", "z_filtered">>

\* the samples the accelerometer delivers
TickSamples == { Sample(0, 0, 0), Sample(60, -60, 0) }

InitTick ==
    /\ CallEntry
    /\ callee = "tick"
    /\ NoLate
    /\ NoGame
    /\ NoReader
    /\ ButtonsReleased
    /\ baseline = Sample(0, 0, 0)
    /\ filtered = baseline
    /\ timeout_s = << >>
    /\ NoTick
    /\ NoEma
    /\ NoPoll
    /\ stmt = 0
    /\ updated = 0
    /\ early_read = FALSE
    /\ NoMove
    /\ NoDir
    /\ NoHold
    /\ NoClick
    /\ NoNav

TickFrame ==
    UNCHANGED <<now, baseline, result, start_time, timeout_s, moveVars, dirVars, holdVars,
                clickVars, navVars, callerVars, pollVars, loopVars, emaVars, gameVars,
                readerVars, lateVars>>

\* the loop calls self.update() (e.g. line 105)
update_enter ==
    /\ callee = "tick"
    /\ pc = "call" \/ pc = "reader"
    /\ iter < MaxUpdates
    /\ pc' = "update"
    /\ iter' = iter + 1
    /\ ustmt' = 1
    /\ raw_sample' = << >>
    /\ UNCHANGED <<filtered, left_button, right_button, encoder_button, refreshed_at,
                   observed, torn>>
    /\ TickFrame

\* one statement of update(); after the last one update() returns to the loop
update_statement ==
    /\ callee = "tick"
    /\ pc = "update"
    /\ LET what == UpdateBody[ustmt]
       IN  /\ what = "encoder_button" =>
                 \E e \in Levels : encoder_button' = Debounce(encoder_button, e)
           /\ what # "encoder_button" => encoder_button' = encoder_button
           /\ what = "left_button" =>
                 \E l \in Levels : left_button' = Debounce(left_button, l)
           /\ what # "left_button" => left_button' = left_button
           /\ what = "right_button" =>
                 \E r \in Levels : right_button' = Debounce(right_button, r)
           /\ what # "right_button" => right_button' = right_button
           /\ what = "acceleration" => \E sample \in TickSamples : raw_sample' = <<sample>>
           /\ what # "acceleration" => raw_sample' = raw_sample
           /\ filtered' =
                 CASE what = "x_filtered" ->
                        [filtered EXCEPT !["x"] = ema_filter(raw_sample[1]["x"], @, ACCEL_EMA_ALPHA)]
                   [] what = "y_filtered" ->
                        [filtered EXCEPT !["y"] = ema_filter(raw_sample[1]["y"], @, ACCEL_EMA_ALPHA)]
                   [] what = "z_filtered" ->
                        [filtered EXCEPT !["z"] = ema_filter(raw_sample[1]["z"], @, ACCEL_EMA_ALPHA)]
                   [] OTHER -> filtered
           /\ refreshed_at' = [d \in Devices |-> IF d = what THEN iter ELSE refreshed_at[d]]
    /\ IF ustmt = Len(UpdateBody)
       THEN pc' = "reader" /\ ustmt' = 0
       ELSE pc' = pc /\ ustmt' = ustmt + 1
    /\ UNCHANGED <<iter, observed, torn>>
    /\ TickFrame

\* line 87: the read of the accelerometer raises; the exception leaves update()
\* and, no caller handling it, the loop that called it
update_read_raises ==
    /\ callee = "tick"
    /\ pc = "update"
    /\ UpdateBody[ustmt] = "acceleration"
    /\ pc' = "raised"
    /\ ustmt' = 0
    /\ UNCHANGED <<iter, filtered, left_button, right_button, encoder_button, raw_sample,
                   refreshed_at, observed, torn>>
    /\ TickFrame

\* the loop reads device values (e.g. lines 106, 175-177, 553)
reader_read ==
    /\ callee = "tick"
    /\ pc = "reader"
    /\ observed' = iter
    /\ torn' = (torn \/ \E d, e \in Devices : refreshed_at[d] # refreshed_at[e])
    /\ UNCHANGED <<pc, iter, filtered, left_button, right_button, encoder_button, ustmt,
                   raw_sample, refreshed_at>>
    /\ TickFrame

NextTick == update_enter \/ update_statement \/ update_read_raises \/ reader_read

SpecTick == InitTick /\ [][NextTick]_vars

\* C28: update() refreshes the encoder, the three buttons and the three
\* filtered values before control is back in the loop that called it: whenever
\* the loop is running its own statements, every device value was refreshed by
\* the latest update() call, and no read of the loop has seen values of which
\* some had been refreshed by that call and others had not.
C28_NoTornTick ==
    /\ pc = "reader" => \A d \in Devices : refreshed_at[d] = iter
    /\ ~torn
    /\ observed > 0 => \A d \in Devices : refreshed_at[d] >= observed

\* the loop has read, after its second update(), a left press edge and a
\* filtered X value that both come from that call
C28_Witness ==
    /\ callee = "tick"
    /\ pc = "reader"
    /\ observed = 2
    /\ left_button.fell
    /\ filtered["x"] # baseline["x"]
    /\ \A d \in Devices : refreshed_at[d] = 2

----------------------------------------------------------------------------
(* AccelerometerReader.update (src/src/direction_detection_v2.py) *)

\* the defaults of the constructor: alpha = 0.3, threshold = 1.2
ReaderAlpha == 30
ReaderThreshold == 120
\* the number of update() calls followed
MaxReaderUpdates == 5

ReaderSamples ==
    { Sample(0, 0, 0), Sample(600, 0, 0), Sample(-600, 0, 0), Sample(600, 600, 0),
      Sample(0, -600, 900) }
ReaderConfirmSamples == {1, 2, 3}

\* lines 45-53: the dominant axis, X before Y before Z among equal magnitudes
Dominant(filt) ==
    IF Abs(filt["x"]) >= Abs(filt["y"]) /\ Abs(filt["x"]) >= Abs(filt["z"]) THEN "x"
    ELSE IF Abs(filt["y"]) >= Abs(filt["x"]) /\ Abs(filt["y"]) >= Abs(filt["z"]) THEN "y"
    ELSE "z"

\* lines 55-59: new_direction
Classify(filt) ==
    LET dominant == Dominant(filt)
        value == filt[dominant]
        plus == CASE dominant = "x" -> "+X" [] dominant = "y" -> "+Y" [] OTHER -> "+Z"
        minus == CASE dominant = "x" -> "-X" [] dominant = "y" -> "-Y" [] OTHER -> "-Z"
    IN  IF value > ReaderThreshold THEN plus
        ELSE IF value < -ReaderThreshold THEN minus
        ELSE "NONE"

\* lines 61-65: self._count after an update classified new_direction
ReaderCount_any(new_direction, dir, cnt) ==
    IF new_direction # "NONE" THEN cnt + 1 ELSE 1
ReaderCount(new_direction, dir, cnt) ==
    IF new_direction = dir /\ new_direction # "NONE" THEN cnt + 1 ELSE 1

InitReader ==
    /\ CallEntry
    /\ callee = "AccelerometerReader.update"
    /\ NoLate
    /\ ButtonsReleased
    /\ baseline = Sample(0, 0, 0)
    /\ filtered = baseline
    /\ timeout_s = << >>
    /\ reader_filt \in ReaderSamples
    /\ direction = "NONE"
    /\ count = 0
    /\ confirm_samples \in ReaderConfirmSamples
    /\ returned = << >>
    /\ classes = << >>
    /\ NoGame
    /\ NoEma
    /\ NoTick
    /\ NoPoll
    /\ stmt = 0
    /\ updated = 0
    /\ early_read = FALSE
    /\ NoMove
    /\ NoDir
    /\ NoHold
    /\ NoClick
    /\ NoNav

\* lines 36-70: update() once the sensor has delivered sample
AccelerometerReader_update(sample) ==
    /\ reader_filt' = [a \in Axes |-> ema_filter(sample[a], reader_filt[a], ReaderAlpha)]
    /\ LET new_direction == Classify(reader_filt')
       IN  /\ count' = ReaderCount(new_direction, direction, count)
           /\ direction' = IF new_direction = direction /\ new_direction # "NONE"
                            THEN direction
                            ELSE new_direction
           /\ classes' = Append(classes, new_direction)
    /\ returned' = IF direction' # "NONE" /\ count' >= confirm_samples
                    THEN <<direction'>>
                    ELSE << >>

\* lines 32-70: one call of update()
reader_update ==
    /\ callee = "AccelerometerReader.update"
    /\ iter < MaxReaderUpdates
    /\ iter' = iter + 1
    /\ \E sample \in ReaderSamples : AccelerometerReader_update(sample)
    /\ UNCHANGED <<now, devVars, pc, result, start_time, timeout_s, moveVars, dirVars,
                   holdVars, clickVars, navVars, callerVars, pollVars, loopVars, emaVars,
                   gameVars, tickVars, lateVars, confirm_samples>>

NextReader == reader_update

SpecReader == InitReader /\ [][NextReader]_vars

\* the latest confirm_samples updates have all been classified d
Confirmed(d) ==
    /\ Len(classes) >= confirm_samples
    /\ \A i \in (Len(classes) - confirm_samples + 1)..Len(classes) : classes[i] = d

\* C30: AccelerometerReader.update() returns a direction d only when this
\* update and the confirm_samples - 1 updates before it have all classified
\* the dominant-axis filtered value as the same direction d, which is not
\* NONE; an update classified NONE, or as a direction other than that of the
\* update before it, leaves the count at 1; and an update that is not
\* confirmed in this sense returns None.
C30_ReturnsOnlyConfirmedDirection ==
    (callee = "AccelerometerReader.update" /\ iter > 0) =>
        LET n == Len(classes)
        IN  /\ n = iter
            /\ returned # << >> => (returned[1] # "NONE" /\ Confirmed(returned[1]))
            /\ (classes[n] = "NONE" \/ (n > 1 /\ classes[n - 1] # classes[n])) => count = 1
            /\ (\A d \in {"+X", "-X", "+Y", "-Y", "+Z", "-Z"} : ~Confirmed(d)) =>
                  returned = << >>

\* with confirm_samples 3, "-X" is returned by the fifth update, the first
\* having been classified "+X" and the second NONE
C30_Witness ==
    /\ callee = "AccelerometerReader.update"
    /\ confirm_samples = 3
    /\ returned = <<"-X">>
    /\ classes = <<"+X", "NONE", "-X", "-X", "-X">>

----------------------------------------------------------------------------
(* InputManager.get_direction (src/src/input_manager.py, lines 568-575) *)

\* get_accel_reader(i2c) at line 73: the reader is built with its default
\* confirm_samples
ReaderDefaultConfirm == 3

\* the state after the constructor: lines 70-77 either keep the reader that
\* get_accel_reader has built or, when it raised, None
InitDirection ==
    /\ CallEntry
    /\ callee = "get_direction"
    /\ ButtonsReleased
    /\ baseline = Sample(0, 0, 0)
    /\ filtered = baseline
    /\ timeout_s = << >>
    /\ accel_reader \in BOOLEAN
    /\ reader_filt \in IF accel_reader THEN ReaderSamples ELSE { Sample(0, 0, 0) }
    /\ confirm_samples = IF accel_reader THEN ReaderDefaultConfirm ELSE 0
    /\ direction = "NONE"
    /\ count = 0
    /\ returned = << >>
    /\ classes = << >>
    /\ got = << >>
    /\ fault = FALSE
    /\ NoScores
    /\ NoCh10
    /\ NoHandover
    /\ NoTap
    /\ NoGame
    /\ NoEma
    /\ NoTick
    /\ NoPoll
    /\ NoLoop
    /\ NoMove
    /\ NoDir
    /\ NoHold
    /\ NoClick
    /\ NoNav

DirectionFrame ==
    UNCHANGED <<now, devVars, result, start_time, timeout_s, moveVars, dirVars, holdVars,
                clickVars, navVars, callerVars, pollVars, loopVars, emaVars, gameVars,
                tickVars, scoreVars, ch10Vars, handoverVars, tapVars, confirm_samples,
                accel_reader>>

\* lines 570-571: no reader was created
get_direction_no_reader ==
    /\ callee = "get_direction"
    /\ iter < MaxReaderUpdates
    /\ ~accel_reader
    /\ iter' = iter + 1
    /\ pc' = "done"
    /\ got' = << >>
    /\ fault' = FALSE
    /\ UNCHANGED <<reader_filt, direction, count, returned, classes>>
    /\ DirectionFrame

\* a failed read that drops the confirmation in progress
get_direction_fault_reset ==
    /\ callee = "get_direction"
    /\ iter < MaxReaderUpdates
    /\ accel_reader
    /\ iter' = iter + 1
    /\ pc' = "done"
    /\ got' = << >>
    /\ fault' = TRUE
    /\ direction' = "NONE"
    /\ count' = 0
    /\ UNCHANGED <<reader_filt, returned, classes>>
    /\ DirectionFrame

\* lines 572-575 with the read at line 36 of the reader raising: update() is
\* left before its first assignment and the exception is caught at 574
get_direction_fault ==
    /\ callee = "get_direction"
    /\ iter < MaxReaderUpdates
    /\ accel_reader
    /\ iter' = iter + 1
    /\ pc' = "done"
    /\ got' = << >>
    /\ fault' = TRUE
    /\ UNCHANGED <<reader_filt, direction, count, returned, classes>>
    /\ DirectionFrame

\* lines 572-573: the value of the reader's update() is returned
get_direction_update ==
    /\ callee = "get_direction"
    /\ iter < MaxReaderUpdates
    /\ accel_reader
    /\ iter' = iter + 1
    /\ pc' = "done"
    /\ \E sample \in ReaderSamples : AccelerometerReader_update(sample)
    /\ got' = returned'
    /\ fault' = FALSE
    /\ DirectionFrame

NextDirection == get_direction_no_reader \/ get_direction_fault \/ get_direction_update

SpecDirection == InitDirection /\ [][NextDirection]_vars

\* one call of get_direction()
GetDirectionCall ==
    (callee = "get_direction" /\ iter' = iter + 1) =>
        /\ pc' = "done"
        /\ ~accel_reader => got' = << >>
        /\ fault' => /\ got' = << >>
                     /\ reader_filt' = reader_filt
                     /\ direction' = direction
                     /\ count' = count
        /\ (accel_reader /\ ~fault') => got' = returned'

\* C31: get_direction() never raises: every call returns, with None when no
\* reader was created and with None when the sensor read of the reader's
\* update() raises, and such a failed read leaves the reader's EMA state, its
\* current direction and its confirmation count as they were.
C31_GetDirectionNeverRaises == [][GetDirectionCall]_vars

\* a read has failed after two updates classified "+X": None is returned and
\* the confirmation in progress is kept
C31_Witness ==
    /\ callee = "get_direction"
    /\ fault
    /\ got = << >>
    /\ direction = "+X"
    /\ count = 2
    /\ classes = <<"+X", "+X">>
    /\ iter = 3

----------------------------------------------------------------------------
(* HighScoreManager (src/src/highscore_manager.py) *)

\* the number of scores kept (lines 72, 92)
TopScores == 3
\* the number of add_score calls followed
MaxAdds == 4

ScoreInitials == {"AAA", "BOB"}
ScoreTimes == {40, 50, 60, 70}

\* the key of the sort: key=lambda x: x[1]
ScoreKey(entry) == entry[2]

\* list.sort(key=...): a stable sort, entries with equal keys keep their order
RECURSIVE SortByKey(_)
SortByKey(list) ==
    IF Len(list) <= 1 THEN list
    ELSE LET front == SortByKey(SubSeq(list, 1, Len(list) - 1))
             last == list[Len(list)]
             before == SelectSeq(front, LAMBDA e : ScoreKey(e) <= ScoreKey(last))
             after == SelectSeq(front, LAMBDA e : ScoreKey(e) > ScoreKey(last))
         IN  before \o <<last>> \o after

\* self.scores[:3]
KeepTop_tail(list) ==
    IF Len(list) <= TopScores THEN list
    ELSE SubSeq(list, Len(list) - TopScores + 1, Len(list))
KeepTop(list) == IF Len(list) <= TopScores THEN list ELSE SubSeq(list, 1, TopScores)

\* lines 72-76
is_high_score_le(list, time_seconds) ==
    IF Len(list) < TopScores THEN TRUE ELSE time_seconds <= list[Len(list)][2]
is_high_score(list, time_seconds) ==
    IF Len(list) < TopScores THEN TRUE ELSE time_seconds < list[Len(list)][2]

\* lines 129-138: an optional rank
get_rank(list, time_seconds) ==
    IF ~is_high_score(list, time_seconds) THEN << >>
    ELSE <<1 + Cardinality({ i \in 1..Len(list) : list[i][2] < time_seconds })>>

InitScores ==
    /\ CallEntry
    /\ callee = "HighScoreManager"
    /\ ButtonsReleased
    /\ baseline = Sample(0, 0, 0)
    /\ filtered = baseline
    /\ timeout_s = << >>
    /\ scores = << >>
    /\ added = << >>
    /\ NoCh10
    /\ NoHandover
    /\ NoTap
    /\ NoDirection
    /\ NoReader
    /\ NoGame
    /\ NoEma
    /\ NoTick
    /\ NoPoll
    /\ NoLoop
    /\ NoMove
    /\ NoDir
    /\ NoHold
    /\ NoClick
    /\ NoNav

\* lines 86-92: add_score(initials, time_seconds); the file written at 95 is
\* not read again
add_score ==
    /\ callee = "HighScoreManager"
    /\ Len(added) < MaxAdds
    /\ \E initials \in ScoreInitials, time_seconds \in ScoreTimes :
          /\ added' = Append(added, time_seconds)
          /\ scores' = KeepTop(SortByKey(Append(scores,
                                                 <<initials, time_seconds, Len(added) + 1>>)))
    /\ UNCHANGED <<now, devVars, callVars, moveVars, dirVars, holdVars, clickVars, navVars,
                   callerVars, pollVars, loopVars, emaVars, gameVars, tickVars, readerVars,
                   directionVars, ch10Vars, handoverVars, tapVars>>

NextScores == add_score

SpecScores == InitScores /\ [][NextScores]_vars

\* the numbers of the add_score calls whose entries are in the list
Kept == { scores[i][3] : i \in 1..Len(scores) }

\* C32: after any sequence of add_score calls from an empty list, the list
\* holds at most 3 entries (all of them while fewer than 3 have been added),
\* sorted by time ascending, and they are the 3 smallest times ever added:
\* no time that was added and is not in the list is smaller than a time in
\* the list.
C32_TopThreeSorted ==
    callee = "HighScoreManager" =>
        /\ Len(scores) = IF Len(added) < TopScores THEN Len(added) ELSE TopScores
        /\ \A i \in 1..Len(scores) :
              /\ scores[i][3] \in 1..Len(added)
              /\ scores[i][2] = added[scores[i][3]]
        /\ \A i, j \in 1..Len(scores) :
              /\ i < j => scores[i][2] <= scores[j][2]
              /\ i # j => scores[i][3] # scores[j][3]
        /\ \A k \in 1..Len(added) : \A i \in 1..Len(scores) :
              k \notin Kept => added[k] >= scores[i][2]

\* four scores have been added, the fastest last: the list holds the three
\* fastest, the slowest having been dropped
C32_Witness ==
    /\ callee = "HighScoreManager"
    /\ added = <<60, 70, 50, 40>>
    /\ Len(scores) = 3
    /\ scores[1][2] = 40
    /\ scores[3][2] = 60

\* the add_score call being made: its time and whether its entry is kept
AddedTime == added'[Len(added')]
NewPosition == { i \in 1..Len(scores') : scores'[i][3] = Len(added') }

HighScoreIffKept ==
    Len(added') = Len(added) + 1 =>
        (is_high_score(scores, AddedTime) <=> NewPosition # {})

\* C33: is_high_score(t) is True exactly when t is in the top 3: for every
\* list reachable by add_score calls and every time t, is_high_score(t) is
\* True if and only if the entry that add_score(initials, t) adds is still in
\* the list afterwards.
C33_HighScoreIffEntryKept == [][HighScoreIffKept]_vars

\* a time equal to the slowest of three scores has been added: it was no high
\* score and its entry has been dropped
C33_Witness ==
    /\ callee = "HighScoreManager"
    /\ added = <<40, 50, 60, 60>>
    /\ Kept = {1, 2, 3}

RankIsPosition ==
    Len(added') = Len(added) + 1 =>
        IF is_high_score(scores, AddedTime)
        THEN /\ get_rank(scores, AddedTime) # << >>
             /\ get_rank(scores, AddedTime)[1] \in 1..TopScores
             /\ NewPosition = { get_rank(scores, AddedTime)[1] }
        ELSE get_rank(scores, AddedTime) = << >>

\* C34: get_rank(t) is the rank the time would achieve: whenever
\* is_high_score(t) holds, get_rank(t) is in 1..3 and equals the 1-based
\* position of the new entry in the list after add_score(initials, t),
\* including when t ties an existing time; when is_high_score(t) is false it
\* returns None.
C34_RankIsPositionAfterAdd == [][RankIsPosition]_vars

----------------------------------------------------------------------------
(* Chapter10.run, the final loop (src/src/chapters/chapter_10.py, 36-79) *)

\* the window of a round, in tenths of a second (line 48: 10 s)
Ch10Window == 100
\* time.sleep(1) at line 38
Ch10QuestionSleep == 10
\* the flash sequence of lines 70-75: 3 times 0.3 s + 0.3 s
Ch10FlashTime == 18
\* the number of rounds followed
MaxRounds == 2
\* the time one iteration of the window loop takes (drawing on the display
\* included)
Ch10Steps == {30, 40}

\* line 61: the round is broken off with choice_made = True
Ch10ChoiceMade_yes(encoder_fell, sel) == encoder_fell /\ sel = 0
Ch10ChoiceMade(encoder_fell, sel) == encoder_fell

\* lines 51-59: selected after the left and right tests
Ch10Selected(sel, left_fell, right_fell) ==
    LET after_left == IF left_fell THEN (sel - 1) % 2 ELSE sel
    IN  IF right_fell THEN (after_left + 1) % 2 ELSE after_left

\* the chapter has reached its final loop: the narrative and the flashing
\* sequence (lines 12-33) are over; the encoder button may still be down from
\* the press that ended the narrative
InitCh10 ==
    /\ CallEntry
    /\ callee = "Chapter10.run"
    /\ baseline = Sample(0, 0, 0)
    /\ filtered = baseline
    /\ left_button = Released
    /\ right_button = Released
    /\ encoder_button \in ButtonStates
    /\ prev_level = [b \in ButtonNames |->
                       IF b = "encoder" THEN encoder_button.value ELSE RELEASED]
    /\ since_press = [b \in ButtonNames |-> 0]
    /\ timeout_s = << >>
    /\ NoCh10
    /\ NoHandover
    /\ NoTap
    /\ NoDirection
    /\ NoScores
    /\ NoReader
    /\ NoGame
    /\ NoEma
    /\ NoTick
    /\ NoLoop
    /\ NoMove
    /\ NoDir
    /\ NoHold
    /\ NoClick
    /\ NoNav

Ch10Frame ==
    UNCHANGED <<result, timeout_s, iter, moveVars, dirVars, holdVars, clickVars, navVars,
                callerVars, loopVars, emaVars, gameVars, tickVars, readerVars,
                directionVars, scoreVars, handoverVars, tapVars>>

\* lines 37-46: the question is shown and a round starts
ch10_question ==
    /\ callee = "Chapter10.run"
    /\ ch10_at = "question"
    /\ rounds < MaxRounds
    /\ pc' = "Chapter10.run"
    /\ now' = now + Ch10QuestionSleep
    /\ selected' = 0
    /\ start_time' = now'
    /\ choice_made' = FALSE
    /\ ch10_at' = "window"
    /\ round_press' = FALSE
    /\ rounds' = rounds + 1
    /\ UNCHANGED <<devVars, pollVars>>
    /\ Ch10Frame

\* lines 48-65: one iteration of the window loop
ch10_tick ==
    /\ callee = "Chapter10.run"
    /\ ch10_at = "window"
    /\ now - start_time < Ch10Window
    /\ \E l \in Levels, r \in Levels, e \in Levels :
        /\ update(l, r, e, baseline)
        /\ ObserveLevels([b \in ButtonNames |->
                            CASE b = "left" -> l [] b = "right" -> r [] OTHER -> e])
    /\ round_press' = (round_press \/ since_press'["encoder"] = 1)
    /\ selected' = Ch10Selected(selected, left_button'.fell, right_button'.fell)
    /\ IF Ch10ChoiceMade(encoder_button'.fell, selected')
       THEN /\ choice_made' = TRUE
            /\ ch10_at' = "flash"
            /\ now' = now
       ELSE /\ choice_made' = choice_made
            /\ ch10_at' = "window"
            /\ \E step \in Ch10Steps : now' = now + step
    /\ UNCHANGED <<pc, start_time, rounds>>
    /\ Ch10Frame

\* lines 48 and 68-79 with choice_made False: the window is over and the
\* final loop is left
ch10_window_over ==
    /\ callee = "Chapter10.run"
    /\ ch10_at = "window"
    /\ ~(now - start_time < Ch10Window)
    /\ ~choice_made
    /\ ch10_at' = "ending"
    /\ pc' = "done"
    /\ UNCHANGED <<now, devVars, pollVars, start_time, selected, choice_made, round_press,
                   rounds>>
    /\ Ch10Frame

\* lines 68-76 with choice_made True: the flash sequence, then the question
\* again
ch10_flash ==
    /\ callee = "Chapter10.run"
    /\ ch10_at = "flash"
    /\ choice_made
    /\ now' = now + Ch10FlashTime
    /\ ch10_at' = "question"
    /\ UNCHANGED <<pc, devVars, pollVars, start_time, selected, choice_made, round_press,
                   rounds>>
    /\ Ch10Frame

NextCh10 == ch10_question \/ ch10_tick \/ ch10_window_over \/ ch10_flash

SpecCh10 == InitCh10 /\ [][NextCh10]_vars

\* a step of the final loop
Ch10Step ==
    callee = "Chapter10.run" =>
        /\ (ch10_at # "ending" /\ ch10_at' = "ending") =>
              /\ ch10_at = "window"
              /\ ~round_press
              /\ now - start_time >= Ch10Window
        /\ (ch10_at = "window" /\ now - start_time < Ch10Window) =>
              ch10_at' = IF round_press' THEN "flash" ELSE "window"
        /\ ch10_at = "flash" => ch10_at' = "question"

\* C35: the correct answer of chapter 10 is to do nothing: the final loop is
\* left (and the game completes) only from a round whose 10 s window has
\* passed without an update() observing an encoder press edge; an encoder
\* press edge in a round breaks the round off and leads, whichever choice is
\* selected, through the flash sequence to the question again; a tick without
\* an encoder press edge, whatever the left and right buttons do, goes on
\* polling the same round.
C35_DoNothingIsCorrect ==
    /\ [][Ch10Step]_vars
    /\ [](ch10_at = "ending" => (~round_press /\ ~choice_made))
    /\ []((ch10_at = "flash" \/ choice_made) => round_press)

\* the first round was broken off by an encoder press; in the second round
\* "No" was selected with the left or right button and the window passed
\* without an encoder press: the loop has been left
C35_Witness ==
    /\ callee = "Chapter10.run"
    /\ ch10_at = "ending"
    /\ rounds = 2
    /\ selected = 1
    /\ ~round_press
    /\ now - start_time >= Ch10Window

----------------------------------------------------------------------------
(* The game timer (src/src/game.py, lines 79, 84-86, 115) *)

\* a step of Game.run and the timer
TimerStep ==
    callee = "Game.run" =>
        /\ (game_start_time' # game_start_time /\ game_start_time' # << >>) =>
              /\ game_start_time = << >>
              /\ first_entry = << >>
              /\ chapter_name' = <<Chapter(1)>>
              /\ game_start_time' = <<now>>
        /\ (game_start_time # << >> /\ game_start_time' = << >>) =>
              /\ game_pc = "select"
              /\ completion_time # << >>
        /\ completion_time' # completion_time =>
              completion_time' = <<IntTrunc(now - first_entry[1], 10)>>

\* C36: the game timer is started exactly once per playthrough, when
\* chapter_01 is first entered; no restart routing (restart_chapter_01
\* included) starts it again, so the completion time computed at the end is
\* the time since that first entry, retries included; the timer is cleared
\* only when a new playthrough starts after prompt_restart.
C36_TimerStartedOncePerPlaythrough ==
    /\ [][TimerStep]_vars
    /\ []((callee = "Game.run" /\ chapter_name # << >> /\ game_pc # "select") =>
              (game_start_time = first_entry /\ first_entry # << >> /\ timer_starts = 1))

\* chapter 1 has been run three times (twice restarted) and the timer still
\* holds the time of the first entry
C36_Witness ==
    /\ callee = "Game.run"
    /\ game_pc = "chapters"
    /\ chapter_name = <<Chapter(1)>>
    /\ next_chapter = <<Restart(Chapter(1))>>
    /\ game_start_time = <<0>>
    /\ timer_starts = 1
    /\ now >= 12

----------------------------------------------------------------------------
(* Blocking routines called one after the other: the press edge a routine   *)
(* returns on and the routine called next                                     *)

\* the number of routines called, and of loop iterations of one call
MaxHandovers == 3
MaxPolls == 2

HandoverRoutines ==
    {"wait_for_encoder_press", "navigate_choice", "select_difficulty", "detect_movement"}

\* the button queries the loop of a routine makes after self.update()
\* (input_manager.py 106, 542-553; game.py 192-200; detect_movement: none)
Queries(routine) ==
    CASE routine = "wait_for_encoder_press" -> {"encoder"}
      [] routine = "navigate_choice" -> {"left", "right", "encoder"}
      [] routine = "select_difficulty" -> {"left", "right", "encoder"}
      [] OTHER -> {}

\* the routines that can return without an encoder press: navigate_choice on
\* its timeout (564), detect_movement on the movement or its timeout (223-236)
ReturnsWithoutPress(routine) == routine \in {"navigate_choice", "detect_movement"}

ButtonOf(b) ==
    CASE b = "left" -> left_button [] b = "right" -> right_button [] OTHER -> encoder_button

InitHandover ==
    /\ CallEntry
    /\ callee = "Chapter.run"
    /\ baseline = Sample(0, 0, 0)
    /\ filtered = baseline
    /\ ButtonsReleased
    /\ prev_level = [b \in ButtonNames |-> RELEASED]
    /\ since_press = [b \in ButtonNames |-> 0]
    /\ timeout_s = << >>
    /\ NoHandover
    /\ NoTap
    /\ NoCh10
    /\ NoDirection
    /\ NoScores
    /\ NoReader
    /\ NoGame
    /\ NoEma
    /\ NoTick
    /\ NoLoop
    /\ NoMove
    /\ NoDir
    /\ NoHold
    /\ NoClick
    /\ NoNav

HandoverFrame ==
    UNCHANGED <<now, result, start_time, timeout_s, callee, moveVars, dirVars, holdVars,
                clickVars, navVars, loopVars, emaVars, gameVars, tickVars, readerVars,
                directionVars, scoreVars, ch10Vars, tapVars>>

\* the caller (a chapter, Game.run) calls its next blocking routine
handover_call ==
    /\ callee = "Chapter.run"
    /\ pc \in {"call", "done"}
    /\ calls < MaxHandovers
    /\ \E routine \in HandoverRoutines : pc' = routine
    /\ iter' = 0
    /\ UNCHANGED <<devVars, pollVars, calls, handoverVars>>
    /\ HandoverFrame

\* one iteration of the routine's loop: self.update(), the queries, and either
\* the return or the sleep; of the two navigation buttons, which the routines
\* treat alike, the left one is pressed in these runs
handover_poll ==
    /\ callee = "Chapter.run"
    /\ pc \in HandoverRoutines
    /\ iter < MaxPolls
    /\ iter' = iter + 1
    /\ \E l \in Levels, r \in {RELEASED}, e \in Levels :
        LET lv == [b \in ButtonNames |->
                     CASE b = "left" -> l [] b = "right" -> r [] OTHER -> e]
            edge == [b \in ButtonNames |-> prev_level[b] = RELEASED /\ lv[b] = PRESSED]
        IN  /\ update(l, r, e, baseline)
            /\ ObserveLevels(lv)
            /\ edge_no' = [b \in ButtonNames |-> IF edge[b] THEN edge_no[b] + 1 ELSE edge_no[b]]
            /\ sampled' = [b \in ButtonNames |->
                             IF edge[b] THEN Append(sampled[b], calls) ELSE sampled[b]]
    /\ acts' = acts \cup { <<b, edge_no'[b], calls>> : b \in { q \in Queries(pc) : ButtonOf(q)'.fell } }
    /\ \/ /\ "encoder" \in Queries(pc)
          /\ encoder_button'.fell
          /\ pc' = "done"
          /\ calls' = calls + 1
       \/ /\ ~("encoder" \in Queries(pc) /\ encoder_button'.fell)
          /\ \/ UNCHANGED <<pc, calls>>
             \/ /\ ReturnsWithoutPress(pc)
                /\ pc' = "done"
                /\ calls' = calls + 1
    /\ HandoverFrame

NextHandover == handover_call \/ handover_poll

SpecHandover == InitHandover /\ [][NextHandover]_vars

\* C37: a button press edge is acted on by at most one blocking routine, the
\* one whose update() sampled it: every time a routine finds a button query
\* true, the press edge it acts on was sampled by an update() of that same
\* call.  So the encoder press that made a routine return is not seen by the
\* routine called next, and a press edge sampled while a routine that does
\* not query the button was polling is acted on by no later routine.
C37_EdgeActedOnByOneRoutine ==
    callee = "Chapter.run" =>
        \A a \in acts :
            /\ a[2] \in 1..Len(sampled[a[1]])
            /\ sampled[a[1]][a[2]] = a[3]

\* wait_for_encoder_press has returned on an encoder press that is still held
\* while the routine called next, which queries the encoder, has polled
\* twice, and an encoder press made during a detect_movement call before them
\* was acted on by no routine
C37_Witness ==
    /\ callee = "Chapter.run"
    /\ pc \in {"navigate_choice", "select_difficulty", "wait_for_encoder_press"}
    /\ calls = 2
    /\ iter = 2
    /\ encoder_button.value = PRESSED
    /\ since_press["encoder"] = 3
    /\ edge_no["encoder"] = 2
    /\ sampled["encoder"] = <<0, 1>>
    /\ acts = { <<"encoder", 2, 1>> }

----------------------------------------------------------------------------
(* The order of the success test and the timeout test within one iteration *)

\* C38: within one iteration, success is tested before the timeout: a
\* navigate_choice call whose last iteration saw an encoder press has
\* returned the index, with the left and right presses of that iteration
\* applied, and not -1, also when that iteration found the timeout elapsed;
\* and a detect_movement, detect_tilt_forward, detect_all_six_directions or
\* detect_double_click_button call whose last iteration met the gesture has
\* returned True, also when that iteration found the timeout elapsed.
C38_SuccessTestedBeforeTimeout ==
    /\ (callee = "navigate_choice" /\ pc = "done" /\ encoder_button.fell) =>
          /\ result # <<-1>>
          /\ result = <<current_index>>
          /\ current_index = net % n_choices
    /\ (/\ callee \in {"detect_movement", "detect_tilt_forward",
                       "detect_all_six_directions", "detect_double_click_button"}
        /\ pc = "done"
        /\ GestureMet) => result = <<TRUE>>

\* the last iteration of navigate_choice found the timeout elapsed and saw a
\* right press and an encoder press: the index moved to is returned
C38_Witness ==
    /\ callee = "navigate_choice"
    /\ pc = "done"
    /\ now - start_time > timeout_s[1]
    /\ encoder_button.fell
    /\ right_button.fell
    /\ ~left_button.fell
    /\ n_choices = 3
    /\ net = 1
    /\ result = <<1>>

----------------------------------------------------------------------------
(* detect_double_tap (src/src/input_manager.py, lines 431-468) *)

\* DOUBLE_TAP_WINDOW = 0.4, in tenths of a second
DOUBLE_TAP_WINDOW == 4
MaxTapTime == 6
TapTimeouts == { << >>, <<0>>, <<3>> }
TapSteps == {2, 3}

\* lines 452-453
IsSecondTap(last, t) == last # << >> /\ t - last[1] <= DOUBLE_TAP_WINDOW

InitTap ==
    /\ CallEntry
    /\ callee = "detect_double_tap"
    /\ NoPoll
    /\ NoLoop
    /\ NoEma
    /\ NoGame
    /\ NoTick
    /\ NoReader
    /\ NoDirection
    /\ NoScores
    /\ NoCh10
    /\ NoHandover
    /\ ButtonsReleased
    /\ baseline = Sample(0, 0, 0)
    /\ filtered = baseline
    /\ timeout_s \in TapTimeouts
    /\ last_tap_time \in { << >>, <<0>> }
    /\ prev_tap = << >>
    /\ tap_pair = FALSE
    /\ NoMove
    /\ NoDir
    /\ NoHold
    /\ NoClick
    /\ NoNav

TapFrame ==
    UNCHANGED <<timeout_s, moveVars, dirVars, holdVars, clickVars, navVars, callerVars,
                pollVars, loopVars, emaVars, gameVars, tickVars, readerVars, directionVars,
                scoreVars, ch10Vars, handoverVars>>

\* lines 441-442
detect_double_tap_begin ==
    /\ pc = "call"
    /\ callee = "detect_double_tap"
    /\ pc' = "detect_double_tap"
    /\ last_tap_time' = << >>
    /\ start_time' = now
    /\ iter' = 0
    /\ prev_tap' = << >>
    /\ tap_pair' = FALSE
    /\ UNCHANGED <<now, devVars, result>>
    /\ TapFrame

\* lines 444-468: one iteration of the loop; tap is
\* self.accelerometer.events["tap"]
detect_double_tap_iter ==
    /\ pc = "detect_double_tap"
    /\ now < MaxTapTime
    /\ update(RELEASED, RELEASED, RELEASED, baseline)
    /\ iter' = iter + 1
    /\ \E tap \in BOOLEAN, dt \in TapSteps :
        /\ prev_tap' = IF tap THEN <<now>> ELSE prev_tap
        /\ tap_pair' = (tap_pair \/ (tap /\ prev_tap # << >>
                                         /\ now - prev_tap[1] <= DOUBLE_TAP_WINDOW))
        /\ IF tap /\ IsSecondTap(last_tap_time, now)
           THEN /\ last_tap_time' = << >>
                /\ pc' = "done" /\ result' = <<TRUE>> /\ now' = now
           ELSE /\ last_tap_time' = IF tap THEN <<now>> ELSE last_tap_time
                /\ IF TimedOut(timeout_s, now - start_time)
                   THEN /\ pc' = "done" /\ result' = <<FALSE>> /\ now' = now
                   ELSE /\ pc' = pc /\ result' = result /\ now' = now + dt
    /\ UNCHANGED start_time
    /\ TapFrame

NextTap == detect_double_tap_begin \/ detect_double_tap_iter

----------------------------------------------------------------------------
(* The detectors called with timeout_s = 0 *)

InitZero ==
    /\ InitMove \/ InitDir \/ InitClick \/ InitTiltForward \/ InitTap
    /\ timeout_s = <<0>>

NextZero == NextMove \/ NextDir \/ NextClick \/ NextTiltForward \/ NextTap

SpecZero == InitZero /\ [][NextZero]_vars

\* C39: a timeout of 0 is treated like None by detect_movement,
\* detect_tilt_forward, detect_all_six_directions, detect_double_tap and
\* detect_double_click_button: called with timeout_s = 0 they never have the
\* result False, they return only with True and the gesture met, and they go
\* on polling after every iteration on which the gesture is not met, however
\* much time has passed.
C39_ZeroTimeoutIsNoTimeout ==
    timeout_s = <<0>> =>
        /\ result # <<FALSE>>
        /\ pc = "done" => (result = <<TRUE>> /\ GestureMet)
        /\ (pc = callee /\ iter > 0) => ~GestureMet
        /\ pc \in {"call", callee, "done"}

\* called with timeout_s = 0, detect_double_tap is still polling after a tap
\* that was not followed by a second one in time
C39_Witness ==
    /\ callee = "detect_double_tap"
    /\ timeout_s = <<0>>
    /\ pc = "detect_double_tap"
    /\ iter >= 3
    /\ now - start_time >= 5
    /\ prev_tap # << >>
    /\ last_tap_time = prev_tap
    /\ now - prev_tap[1] > DOUBLE_TAP_WINDOW

----------------------------------------------------------------------------
(* The countdown values navigate_choice passes to display_callback *)

\* an iteration of navigate_choice and the countdown of its timer-driven call
CountdownDecreases ==
    (pc = "navigate_choice" /\ iter' = iter + 1) =>
        (last_countdown' # last_countdown =>
            /\ last_countdown' < last_countdown
            /\ shown'.countdown = last_countdown')

\* C40: every countdown value that navigate_choice passes to the display
\* callback is an integer between 0 and timeout_s inclusive, for every tick
\* spacing and every press sequence, and the countdown values passed by the
\* timer-driven calls are strictly decreasing.
C40_CountdownWithinRange ==
    /\ []((callee = "navigate_choice" /\ pc # "call") =>
              shown.countdown \in 0..(timeout_s[1] \div 10))
    /\ [][CountdownDecreases]_vars

====
